---- MODULE Spec2Model ----
(***************************************************************************)
(* ferristream: the streaming orchestration engine.                        *)
(*                                                                         *)
(*   RaceSpec  StreamingSession::race_torrents (src/src/streaming.rs):     *)
(*             the resolution tasks, the completion channel, the result    *)
(*             loop with its tokio::select!, and the cancellation token.   *)
(*   LoopSpec  run_app (src/src/tui/mod.rs): the orchestration loop, its   *)
(*             message queue, the session set-up tasks, the player tasks   *)
(*             and their pollers.                                          *)
(*                                                                         *)
(* Indices are 0-based, as in the source.                                  *)
(***************************************************************************)
EXTENDS Integers, Sequences, FiniteSets, TLC

(***************************************************************************)
(* Bounds of the model.                                                    *)
(***************************************************************************)
\* longest candidate list given to race_torrents
MaxUrls == 3
\* largest concurrency width given to race_torrents
MaxConcurrent == 3
\* streaming sessions started in one run of the loop
MaxSessions == 2
\* torrent searches started in one run of the loop
MaxSearches == 1
\* player tasks spawned in one run of the loop
MaxPlayers == 2
\* torrent searches started in one run of the search slice of the loop
MaxSearchIds == 3
\* video files of a resolved torrent
MaxFiles == 2
\* telemetry records emitted by the pollers in one run of the loop
MaxPolls == 1
\* readings the two step-by-step pollers take in a run
MaxEmits == 4
\* messages the UI channel holds in the model (the program's channel holds 32)
QueueCap == 2

\* Option<T>: None is the empty sequence, Some(x) the one-element sequence
None == <<>>
Some(x) == <<x>>
IsSome(o) == Len(o) = 1
Unwrap(o) == o[1]

Min(a, b) == IF a <= b THEN a ELSE b

(***************************************************************************)
(* Text: a string is a sequence of one-character strings.                  *)
(***************************************************************************)
UpperChars == <<"A", "B", "C", "D", "E", "F", "G", "H", "I", "J", "K", "L", "M",
                "N", "O", "P", "Q", "R", "S", "T", "U", "V", "W", "X", "Y", "Z">>
LowerChars == <<"a", "b", "c", "d", "e", "f", "g", "h", "i", "j", "k", "l", "m",
                "n", "o", "p", "q", "r", "s", "t", "u", "v", "w", "x", "y", "z">>
DigitChars == <<"0", "1", "2", "3", "4", "5", "6", "7", "8", "9">>

\* char::to_lowercase on the ASCII range
LowerChar(c) ==
    IF \E i \in 1..Len(UpperChars) : UpperChars[i] = c
    THEN LowerChars[CHOOSE i \in 1..Len(UpperChars) : UpperChars[i] = c]
    ELSE c

\* str::to_lowercase
ToLowercase(s) == [i \in 1..Len(s) |-> LowerChar(s[i])]

\* str::contains(pat): pat occurs in s as a contiguous run
StrContains(s, pat) ==
    \E off \in 0..(Len(s) - Len(pat)) :
        \A i \in 1..Len(pat) : s[off + i] = pat[i]

\* u16::to_string: the decimal digits, no leading zero
RECURSIVE U16ToString(_)
U16ToString(n) ==
    IF n < 10 THEN <<DigitChars[n + 1]>>
    ELSE Append(U16ToString(n \div 10), DigitChars[(n % 10) + 1])

(***************************************************************************)
(* TorrentValidation                                                       *)
(***************************************************************************)
\* TorrentValidation::new
TorrentValidation(title_keywords, year) ==
    [title_keywords |-> title_keywords, year |-> year]

\* TorrentValidation::matches
Matches(v, filename) ==
    LET filename_lower == ToLowercase(filename)
        title_matches ==
            \/ Len(v.title_keywords) = 0
            \/ \E k \in 1..Len(v.title_keywords) :
                  StrContains(filename_lower, v.title_keywords[k])
        year_matches ==
            IF IsSome(v.year) THEN StrContains(filename, U16ToString(Unwrap(v.year)))
            ELSE TRUE
    IN title_matches /\ year_matches

(***************************************************************************)
(* Inputs of a race: what each candidate's add_torrent returns, the        *)
(* validation criteria and the concurrency width.                          *)
(***************************************************************************)
\* names of the selected file of a resolved torrent
FileNames == { <<"D", "u", "n", "e", "1", "9">>,
               <<"d", "u", "n", "e">>,
               <<"x", "1", "9">> }

\* a StreamError of one candidate's add_torrent
ErrCandidate == "timeout adding torrent (60s)"

\* a failed resolution (any StreamError of add_torrent)
NoInfo == [id |-> 0, selected_file |-> <<>>]
ResolveErr == [ok |-> FALSE, info |-> NoInfo, err |-> ErrCandidate]
\* a resolved torrent: TorrentInfo, reduced to its id and selected file name
ResolveOk(idx, name) ==
    [ok |-> TRUE, info |-> [id |-> idx, selected_file |-> name], err |-> ""]

ResolutionsOf(idx) == {ResolveErr} \cup {ResolveOk(idx, n) : n \in FileNames}

Validations == { None,
                 Some(TorrentValidation(<< <<"d", "u", "n", "e">> >>, None)),
                 Some(TorrentValidation(<< <<"d", "u", "n", "e">> >>, Some(19))) }

(***************************************************************************)
(* State of one call of a pure function (FnSpec).                          *)
(***************************************************************************)
VARIABLES
    fn,            \* the function called ("none": no call)
    args,          \* its arguments
    ret            \* Option of what it returned

fnVars == <<fn, args, ret>>

(***************************************************************************)
(* State of one call of race_torrents.                                     *)
(***************************************************************************)
VARIABLES
    urls,          \* the candidates: urls[i + 1] is what add_torrent of candidate i returns
    validation,    \* Option<TorrentValidation>
    concurrent,    \* the concurrency width passed by the caller
    race_pc,       \* "call", "racing", "returned", "panicked"
    in_flight,     \* the local counter in_flight
    urls_iter,     \* index the iterator urls_iter hands out next
    task,          \* task[i]: "unstarted", "running", "sent", "received", "dropped"
    chan,          \* the mpsc completion channel: indices whose result is queued
    race_cancel,   \* the race's CancellationToken is signaled
    race_result    \* Option<Result<(usize, TorrentInfo), StreamError>>

raceVars == <<urls, validation, concurrent, race_pc, in_flight, urls_iter,
              task, chan, race_cancel, race_result>>

(***************************************************************************)
(* State of run_app: the orchestration loop and the tasks it spawns.       *)
(* Display-only fields (titles, racing_message, progress values, the       *)
(* resume prompt, which no message ever raises) are left out.              *)
(***************************************************************************)
VARIABLES
    view,                  \* app.view: "Discovery", "Results", "FileSelection", "Streaming",
                           \* "TvSeasons", "TvEpisodes"
    is_streaming,          \* app.is_streaming
    streaming_state,       \* app.streaming_state: "Connecting", "FetchingMetadata", "Ready", "Error"
    available_files,       \* app.available_files: [owner |-> session, n |-> length]
    selected_file_index,   \* app.selected_file_index
    current_episode_index, \* app.current_episode_index
    next_episode_ready,    \* app.next_episode_ready
    auto_play_next,        \* app.auto_play_next
    streaming_session,     \* Option<Arc<StreamingSession>>: 0 is None, else the session
    streaming_cancel,      \* Option<CancellationToken>: 0 is None, else the session whose token it is
    pending_torrent_info,  \* Option<TorrentInfo>: 0 is None, else the session it was resolved for
    search_id,             \* app.search_id
    is_searching,          \* app.is_searching
    has_results,           \* app.results is not empty
    auto_race,             \* config.streaming.auto_race
    ipc,                   \* config.player.command is mpv: the player has an IPC socket
    loop_pc,               \* "drain": in the try_recv loop; "input": in event::poll
    queue,                 \* the UiMessage channel
    searches,              \* search tasks in flight, in spawn order: the search_id each carries
    nsess,                 \* sessions started so far
    token,                 \* token[s]: the CancellationToken created for session s is signaled
    sess_kind,             \* sess_kind[s]: "race" (auto-race task) or "direct" (Results Enter task)
    setup_pc,              \* setup_pc[s]: position of the set-up task of session s
    created,               \* created[s]: StreamingSession::new succeeded for s
    cleaned,               \* cleaned[s]: cleanup() was called on the handle of s
    nfiles,                \* nfiles[s]: video files of the torrent resolved for s (0: none yet)
    players,               \* the player tasks, in spawn order
    polls,                 \* telemetry records emitted so far
    tmdb_info,             \* Option<TmdbMetadata>: 0 is None, else the search whose query it was looked up for
    tmdb_lookups,          \* TMDB lookup tasks in flight, in spawn order: the search each was spawned by
    race_criteria,         \* race_criteria[s]: what the validation of the race of session s was built from
    poller,                \* poller[k]: position of telemetry poller k of the playing player, followed step by step
    rx_open,               \* the receiver of the UiMessage channel has not been dropped
    is_fetching_tv_details, \* app.is_fetching_tv_details
    has_tv_details,        \* app.tv_details is Some
    tv_fetches,            \* TMDB fetch tasks of the TV browser in flight: "details" or "season"
    episode_search,        \* current_search_id of the episode search task spawned last (0: none)
    cancelled_searches     \* the episode searches the user cancelled with q/Esc

loopVars == <<view, is_streaming, streaming_state, available_files,
              selected_file_index, current_episode_index, next_episode_ready,
              auto_play_next, streaming_session, streaming_cancel,
              pending_torrent_info, search_id, is_searching, has_results,
              auto_race, ipc, loop_pc, queue, searches, nsess, token, sess_kind,
              setup_pc, created, cleaned, nfiles, players, polls, tmdb_info,
              tmdb_lookups, race_criteria, poller, rx_open,
              is_fetching_tv_details, has_tv_details, tv_fetches, episode_search,
              cancelled_searches>>

pollVars == <<poller, rx_open>>

tvVars == <<is_fetching_tv_details, has_tv_details, tv_fetches, episode_search,
            cancelled_searches>>

tmdbVars == <<tmdb_info, tmdb_lookups, race_criteria>>

appVars == <<view, is_streaming, streaming_state, available_files,
             selected_file_index, current_episode_index, next_episode_ready,
             auto_play_next, streaming_session, streaming_cancel,
             pending_torrent_info, search_id, is_searching, has_results>>
configVars == <<auto_race, ipc>>
sessVars == <<nsess, token, sess_kind, setup_pc, created, cleaned, nfiles>>

(***************************************************************************)
(* race_torrents.                                                          *)
(***************************************************************************)
\* Result<(usize, TorrentInfo), StreamError>
RaceOk(idx, info) == [ok |-> TRUE, idx |-> idx, info |-> info, err |-> ""]
RaceErr(msg) == [ok |-> FALSE, idx |-> 0, info |-> NoInfo, err |-> msg]

ErrNoTorrents == "no torrents to race"
ErrCancelled == "cancelled"
ErrNoMatch == "no matching torrents found"

total == Len(urls)
Indices == 0..(total - 1)

\* tasks spawned and whose result the loop has not received
Outstanding == {i \in Indices : task[i] \in {"running", "sent"}}
Started == {i \in Indices : task[i] # "unstarted"}

\* a race that does not return early on an empty list
NeverEmpty(u) == FALSE

\* urls.is_empty()
IsEmpty(u) == Len(u) = 0

\* an initial batch that ignores the concurrency width
InitialBatchAll(n, c) == n

\* mutation of InitialBatch: a single candidate is started
InitialBatchOne(n, c) == 1

\* concurrent.min(total): the size of the initial batch
InitialBatch(n, c) == Min(c, n)

\* a winner test that accepts every resolved torrent
AcceptsAll(v, info) == TRUE

\* `if let Some(ref v) = validation && !v.matches(..)` is the rejection
Accepts(v, info) ==
    IF IsSome(v) THEN Matches(Unwrap(v), info.selected_file) ELSE TRUE

\* a race loop that gives up while one task is still in flight
StopsEarly(n) == n > 1

\* `while in_flight > 0`
StillRacing(n) == n > 0

\* a replacement rule that starts nothing after a failure
NoReplacement(it, n) == FALSE

\* mutation of HasNextUrl: the last candidate is never handed out
SkipsLastUrl(it, n) == it + 1 < n

\* urls_iter.next() is Some: an unstarted candidate remains
HasNextUrl(it, n) == it < n

\* mutation of Capacity: a completion channel of one slot
CapacityOne(n) == 1

\* `mpsc::channel(total)`: the completion channel holds one result per
\* candidate
Capacity(n) == n

RaceInit ==
    /\ urls \in UNION { {u \in [1..n -> UNION {ResolutionsOf(i) : i \in 0..(n - 1)}] :
                            \A i \in 1..n : u[i] \in ResolutionsOf(i - 1)}
                        : n \in 0..MaxUrls }
    /\ validation \in Validations
    /\ concurrent \in 1..MaxConcurrent
    /\ race_pc = "call"
    /\ in_flight = 0
    /\ urls_iter = 0
    /\ task = [i \in 0..(Len(urls) - 1) |-> "unstarted"]
    /\ chan = <<>>
    /\ race_cancel = FALSE
    /\ race_result = None

\* what add_torrent of candidate i returns
ResultOf(i) == urls[i + 1]

\* race_torrents up to its first await: the empty check and the initial batch
RaceCall ==
    /\ race_pc = "call"
    /\ IF IsEmpty(urls)
       THEN /\ race_pc' = "returned"
            /\ race_result' = Some(RaceErr(ErrNoTorrents))
            /\ UNCHANGED <<in_flight, urls_iter, task>>
       ELSE IF total = 0
       THEN \* mpsc::channel(total) panics on a capacity of 0
            /\ race_pc' = "panicked"
            /\ UNCHANGED <<in_flight, urls_iter, task, race_result>>
       ELSE LET c == InitialBatch(total, concurrent) IN
            /\ task' = [i \in Indices |-> IF i < c THEN "running" ELSE "unstarted"]
            /\ urls_iter' = c
            /\ in_flight' = c
            /\ IF StillRacing(c)
               THEN race_pc' = "racing" /\ race_result' = race_result
               ELSE race_pc' = "returned" /\ race_result' = Some(RaceErr(ErrNoMatch))
    /\ UNCHANGED <<urls, validation, concurrent, chan, race_cancel>>
    /\ UNCHANGED <<loopVars, fnVars>>

\* mutation of ReceiverDropped: the receiver outlives the race
ReceiverKept(pc) == FALSE

\* the receiver rx is a local of race_torrents: it is dropped when the
\* function returns
ReceiverDropped(pc) == pc = "returned"

\* a spawned task: add_torrent returns and the task sends (idx, result); the
\* send fails, and is ignored, once the receiver is dropped
TaskFinish(i) ==
    /\ task[i] = "running"
    /\ IF ReceiverDropped(race_pc)
       THEN task' = [task EXCEPT ![i] = "dropped"] /\ chan' = chan
       ELSE /\ Len(chan) < Capacity(total)
            /\ task' = [task EXCEPT ![i] = "sent"]
            /\ chan' = Append(chan, i)
    /\ UNCHANGED <<urls, validation, concurrent, race_pc, in_flight, urls_iter,
                   race_cancel, race_result>>
    /\ UNCHANGED <<loopVars, fnVars>>

\* select!: the branch `result = rx.recv()`, then the loop condition
RaceRecv ==
    /\ race_pc = "racing"
    /\ chan # <<>>
    /\ LET idx == Head(chan)
           result == ResultOf(idx)
           won == result.ok /\ Accepts(validation, result.info)
           spawn == ~won /\ HasNextUrl(urls_iter, total)
           left == IF spawn THEN in_flight ELSE in_flight - 1
       IN /\ chan' = Tail(chan)
          /\ task' = IF spawn
                     THEN [task EXCEPT ![idx] = "received", ![urls_iter] = "running"]
                     ELSE [task EXCEPT ![idx] = "received"]
          /\ urls_iter' = IF spawn THEN urls_iter + 1 ELSE urls_iter
          /\ in_flight' = left
          /\ IF won
             THEN race_pc' = "returned" /\ race_result' = Some(RaceOk(idx, result.info))
             ELSE IF StillRacing(left)
                  THEN race_pc' = "racing" /\ race_result' = race_result
                  ELSE race_pc' = "returned" /\ race_result' = Some(RaceErr(ErrNoMatch))
    /\ UNCHANGED <<urls, validation, concurrent, race_cancel>>
    /\ UNCHANGED <<loopVars, fnVars>>

\* select!: the branch `_ = cancel_token.cancelled()`
RaceCancelled ==
    /\ race_pc = "racing"
    /\ race_cancel
    /\ race_pc' = "returned"
    /\ race_result' = Some(RaceErr(ErrCancelled))
    /\ UNCHANGED <<urls, validation, concurrent, in_flight, urls_iter, task, chan,
                   race_cancel>>
    /\ UNCHANGED <<loopVars, fnVars>>

\* the owner of the token signals it while the race is running
SignalCancel ==
    /\ race_pc = "racing"
    /\ ~race_cancel
    /\ race_cancel' = TRUE
    /\ UNCHANGED <<urls, validation, concurrent, race_pc, in_flight, urls_iter,
                   task, chan, race_result>>
    /\ UNCHANGED <<loopVars, fnVars>>


Sessions == 1..MaxSessions

\* UiMessage, reduced to its variant, the session of the task that sent it
\* and one argument (the search_id, or the number of video files)
Msg(type, sess, arg) == [type |-> type, sess |-> sess, arg |-> arg]

NoFiles == [owner |-> 0, n |-> 0]

\* the two telemetry pollers of a player task
PollerKinds == {"progress", "position"}

\* no race started: no query and no TMDB metadata
NoCriteria == [search |-> 0, tmdb |-> 0]

\* a has_next_episode that is off by one
HasNextOffByOne(idx, len) == idx < len

\* mutation of HasNextEpisode: a next episode is always reported
AlwaysHasNext(idx, len) == TRUE

\* App::has_next_episode
HasNextEpisode(idx, len) == idx + 1 < len

\* streaming_cancel.clone().unwrap_or_default(): the stored token, or a fresh
\* token (0) that nobody else holds
TokenOrDefault(c) == c

\* CancellationToken::is_cancelled for the token a task holds
IsCancelled(tok) == tok # 0 /\ token[tok]

\* a player task: the session whose handle it holds, its variant ("single",
\* "select", "auto"), the token it holds, the file it plays, its position and
\* whether its two pollers are alive
Player(sess, kind, tok, file) ==
    [sess |-> sess, kind |-> kind, tok |-> tok, file |-> file, pc |-> "subs",
     progress |-> TRUE, position |-> FALSE]

CanSend == Len(queue) < QueueCap
CanSpawnPlayer == Len(players) < MaxPlayers

\* App::new and the locals of run_app
LoopInit ==
    /\ view = "Discovery"
    /\ is_streaming = FALSE
    /\ streaming_state = "Connecting"
    /\ available_files = NoFiles
    /\ selected_file_index = 0
    /\ current_episode_index = 0
    /\ next_episode_ready = FALSE
    /\ auto_play_next = TRUE
    /\ streaming_session = 0
    /\ streaming_cancel = 0
    /\ pending_torrent_info = 0
    /\ search_id = 0
    /\ is_searching = FALSE
    /\ has_results = FALSE
    /\ auto_race \in {0, MaxConcurrent}
    /\ ipc \in BOOLEAN
    /\ loop_pc = "drain"
    /\ queue = <<>>
    /\ searches = <<>>
    /\ nsess = 0
    /\ token = [s \in Sessions |-> FALSE]
    /\ sess_kind = [s \in Sessions |-> "none"]
    /\ setup_pc = [s \in Sessions |-> "none"]
    /\ created = [s \in Sessions |-> FALSE]
    /\ cleaned = [s \in Sessions |-> FALSE]
    /\ nfiles = [s \in Sessions |-> 0]
    /\ players = <<>>
    /\ polls = 0
    /\ tmdb_info = 0
    /\ tmdb_lookups = <<>>
    /\ race_criteria = [s \in Sessions |-> NoCriteria]
    /\ poller = [k \in PollerKinds |-> "none"]
    /\ rx_open = TRUE
    /\ is_fetching_tv_details = FALSE
    /\ has_tv_details = FALSE
    /\ tv_fetches = <<>>
    /\ episode_search = 0
    /\ cancelled_searches = {}

(***************************************************************************)
(* run_app: key handlers, message handlers, set-up tasks, player tasks.     *)
(***************************************************************************)
\* a stale check that lets every result through
NeverStale(id, current) == FALSE

\* `if search_id != app.search_id`: the results of a search that is no longer
\* the current one
IsStale(id, current) == id # current

\* `if let Some(cancel) = streaming_cancel.take() { cancel.cancel() }`
CancelTaken(c) == IF c # 0 THEN [token EXCEPT ![c] = TRUE] ELSE token

\* `if let Some(session) = streaming_session.take() { session.cleanup().await }`
CleanupTaken(h) == IF h # 0 THEN [cleaned EXCEPT ![h] = TRUE] ELSE cleaned

\* App::select_next_file
SelectNextFile(idx, len) == IF len > 0 THEN Min(idx + 1, len - 1) ELSE idx

\* App::select_previous_file
SelectPreviousFile(idx) == IF idx > 0 THEN idx - 1 ELSE idx

\* mutation of AdvanceIndex: the index is left where it was
StayAtIndex(idx) == idx

\* App::advance_to_next_episode: `self.current_episode_index += 1`
AdvanceIndex(idx) == idx + 1

\* the view a finished or cancelled stream goes back to
ViewAfterStream == IF auto_race > 0 THEN "Discovery" ELSE "Results"

\* what race_torrents can return to the auto-race task (see RaceSpec): a
\* winner or the exhaustion failure at any time, the cancellation failure only
\* once the token is signaled
RaceOutcomes(cancelled) ==
    {"Ok", "NoMatch"} \cup (IF cancelled THEN {"Cancelled"} ELSE {})

\* Discovery view, Enter on a movie: search_id is incremented and a torrent
\* search carrying it is started (max caps the searches of a run)
DiscoveryEnter(max) ==
    /\ loop_pc = "input"
    /\ view = "Discovery"
    /\ search_id < max
    /\ search_id' = search_id + 1
    /\ is_searching' = TRUE
    /\ searches' = Append(searches, search_id + 1)
    /\ view' = "Results"
    /\ loop_pc' = "drain"
    /\ UNCHANGED <<is_streaming, streaming_state, available_files,
                   selected_file_index, current_episode_index, next_episode_ready,
                   auto_play_next, streaming_session, streaming_cancel,
                   pending_torrent_info, has_results, auto_race, ipc, queue, nsess,
                   token, sess_kind, setup_pc, created, cleaned, nfiles, players,
                   polls, tmdbVars, pollVars, tvVars, raceVars, fnVars>>

StartSearch == DiscoveryEnter(MaxSearches)

\* spawn_torrent_search: the k-th search task in flight reports its results or
\* an error
SearchFinish(k) ==
    /\ k \in 1..Len(searches)
    /\ CanSend
    /\ searches' = [i \in 1..(Len(searches) - 1) |->
                       IF i < k THEN searches[i] ELSE searches[i + 1]]
    /\ \/ \E found \in BOOLEAN :
             queue' = Append(queue, Msg("SearchComplete", 0,
                                        [search_id |-> searches[k], found |-> found]))
       \/ \* SearchError carries no search_id: arg records the search that
          \* failed, which no handler reads
          queue' = Append(queue, Msg("SearchError", 0, searches[k]))
    /\ UNCHANGED <<view, is_streaming, streaming_state, available_files,
                   selected_file_index, current_episode_index, next_episode_ready,
                   auto_play_next, streaming_session, streaming_cancel,
                   pending_torrent_info, search_id, is_searching, has_results,
                   auto_race, ipc, loop_pc, nsess, token, sess_kind, setup_pc,
                   created, cleaned, nfiles, players, polls, tmdbVars, pollVars, tvVars, raceVars, fnVars>>

\* Discovery view, '/': open the search view
DiscoverySlash ==
    /\ loop_pc = "input"
    /\ view = "Discovery"
    /\ view' = "Search"
    /\ loop_pc' = "drain"
    /\ UNCHANGED <<is_streaming, streaming_state, available_files,
                   selected_file_index, current_episode_index, next_episode_ready,
                   auto_play_next, streaming_session, streaming_cancel,
                   pending_torrent_info, search_id, is_searching, has_results,
                   auto_race, ipc, queue, searches, nsess, token, sess_kind,
                   setup_pc, created, cleaned, nfiles, players, polls, tmdbVars, pollVars, tvVars, raceVars, fnVars>>

\* Results view, '/': open the search view
ResultsSlash ==
    /\ loop_pc = "input"
    /\ view = "Results"
    /\ view' = "Search"
    /\ loop_pc' = "drain"
    /\ UNCHANGED <<is_streaming, streaming_state, available_files,
                   selected_file_index, current_episode_index, next_episode_ready,
                   auto_play_next, streaming_session, streaming_cancel,
                   pending_torrent_info, search_id, is_searching, has_results,
                   auto_race, ipc, queue, searches, nsess, token, sess_kind,
                   setup_pc, created, cleaned, nfiles, players, polls, tmdbVars, pollVars, tvVars, raceVars, fnVars>>

\* Search view, Enter on a query while no search is running: search_id is
\* incremented and a torrent search carrying it is started
SearchEnter ==
    /\ loop_pc = "input"
    /\ view = "Search"
    /\ ~is_searching
    /\ search_id < MaxSearchIds
    /\ search_id' = search_id + 1
    /\ is_searching' = TRUE
    /\ searches' = Append(searches, search_id + 1)
    /\ tmdb_info' = 0
    /\ tmdb_lookups' = Append(tmdb_lookups, search_id + 1)
    /\ loop_pc' = "drain"
    /\ UNCHANGED <<view, is_streaming, streaming_state, available_files,
                   selected_file_index, current_episode_index, next_episode_ready,
                   auto_play_next, streaming_session, streaming_cancel,
                   pending_torrent_info, has_results, auto_race, ipc, queue, nsess,
                   token, sess_kind, setup_pc, created, cleaned, nfiles, players,
                   polls, race_criteria, pollVars, tvVars, raceVars, fnVars>>

\* the TMDB lookup task spawned by the search view's Enter: the k-th lookup in
\* flight sends the first result as TmdbInfo, or ends without a message (no
\* API key, a failed request, no result)
TmdbLookup(k) ==
    /\ k \in 1..Len(tmdb_lookups)
    /\ tmdb_lookups' = [i \in 1..(Len(tmdb_lookups) - 1) |->
                           IF i < k THEN tmdb_lookups[i] ELSE tmdb_lookups[i + 1]]
    /\ \/ /\ CanSend
          /\ queue' = Append(queue, Msg("TmdbInfo", 0, tmdb_lookups[k]))
       \/ UNCHANGED queue
    /\ UNCHANGED <<view, is_streaming, streaming_state, available_files,
                   selected_file_index, current_episode_index, next_episode_ready,
                   auto_play_next, streaming_session, streaming_cancel,
                   pending_torrent_info, search_id, is_searching, has_results,
                   auto_race, ipc, loop_pc, searches, nsess, token, sess_kind,
                   setup_pc, created, cleaned, nfiles, players, polls, tmdb_info,
                   race_criteria, pollVars, tvVars, raceVars, fnVars>>

\* event::poll times out, or the key has no handler in this view
InputTimeout ==
    /\ loop_pc = "input"
    /\ loop_pc' = "drain"
    /\ UNCHANGED <<view, is_streaming, streaming_state, available_files,
                   selected_file_index, current_episode_index, next_episode_ready,
                   auto_play_next, streaming_session, streaming_cancel,
                   pending_torrent_info, search_id, is_searching, has_results,
                   auto_race, ipc, queue, searches, nsess, token, sess_kind,
                   setup_pc, created, cleaned, nfiles, players, polls, tmdbVars, pollVars, tvVars, raceVars, fnVars>>

\* Results view, q/Esc
ResultsBack ==
    /\ loop_pc = "input"
    /\ view = "Results"
    /\ view' = "Discovery"
    /\ loop_pc' = "drain"
    /\ UNCHANGED <<is_streaming, streaming_state, available_files,
                   selected_file_index, current_episode_index, next_episode_ready,
                   auto_play_next, streaming_session, streaming_cancel,
                   pending_torrent_info, search_id, is_searching, has_results,
                   auto_race, ipc, queue, searches, nsess, token, sess_kind,
                   setup_pc, created, cleaned, nfiles, players, polls, tmdbVars, pollVars, tvVars, raceVars, fnVars>>

\* Results view, Enter on a result while nothing is streaming: a session is
\* started and its set-up task spawned
ResultsEnter ==
    /\ loop_pc = "input"
    /\ view = "Results"
    /\ ~is_streaming
    /\ has_results
    /\ nsess < MaxSessions
    /\ view' = "Streaming"
    /\ streaming_state' = "Connecting"
    /\ is_streaming' = TRUE
    /\ nsess' = nsess + 1
    /\ streaming_cancel' = nsess + 1
    /\ sess_kind' = [sess_kind EXCEPT ![nsess + 1] = "direct"]
    /\ setup_pc' = [setup_pc EXCEPT ![nsess + 1] = "start"]
    /\ loop_pc' = "drain"
    /\ UNCHANGED <<available_files, selected_file_index, current_episode_index,
                   next_episode_ready, auto_play_next, streaming_session,
                   pending_torrent_info, search_id, is_searching, has_results,
                   auto_race, ipc, queue, searches, token, created, cleaned, nfiles,
                   players, polls, tmdbVars, pollVars, tvVars, raceVars, fnVars>>

\* FileSelection view, Esc: cancel and go back to the results
FileSelectionEsc ==
    /\ loop_pc = "input"
    /\ view = "FileSelection"
    /\ token' = CancelTaken(streaming_cancel)
    /\ streaming_cancel' = 0
    /\ cleaned' = CleanupTaken(streaming_session)
    /\ streaming_session' = 0
    /\ pending_torrent_info' = 0
    /\ available_files' = NoFiles
    /\ view' = "Results"
    /\ is_streaming' = FALSE
    /\ loop_pc' = "drain"
    /\ UNCHANGED <<streaming_state, selected_file_index, current_episode_index,
                   next_episode_ready, auto_play_next, search_id, is_searching,
                   has_results, auto_race, ipc, queue, searches, nsess, sess_kind,
                   setup_pc, created, nfiles, players, polls, tmdbVars, pollVars, tvVars, raceVars, fnVars>>

\* FileSelection view, Up/Down: select_previous_file / select_next_file
FileSelectionMove ==
    /\ loop_pc = "input"
    /\ view = "FileSelection"
    /\ \/ selected_file_index' = SelectNextFile(selected_file_index, available_files.n)
       \/ selected_file_index' = SelectPreviousFile(selected_file_index)
    /\ loop_pc' = "drain"
    /\ UNCHANGED <<view, is_streaming, streaming_state, available_files,
                   current_episode_index, next_episode_ready, auto_play_next,
                   streaming_session, streaming_cancel, pending_torrent_info,
                   search_id, is_searching, has_results, auto_race, ipc, queue,
                   searches, nsess, token, sess_kind, setup_pc, created, cleaned,
                   nfiles, players, polls, tmdbVars, pollVars, tvVars, raceVars, fnVars>>

\* FileSelection view, Enter: play the selected file
FileSelectionEnter ==
    /\ loop_pc = "input"
    /\ view = "FileSelection"
    /\ IF /\ selected_file_index < available_files.n
          /\ streaming_session # 0
          /\ pending_torrent_info # 0
       THEN /\ CanSpawnPlayer
            /\ current_episode_index' = selected_file_index
            /\ streaming_state' = "Ready"
            /\ view' = "Streaming"
            /\ next_episode_ready' =
                   IF selected_file_index + 1 < available_files.n
                   THEN TRUE ELSE next_episode_ready
            /\ players' = Append(players,
                   Player(streaming_session, "select", TokenOrDefault(streaming_cancel),
                          <<available_files.owner, selected_file_index>>))
       ELSE UNCHANGED <<current_episode_index, streaming_state, view,
                        next_episode_ready, players>>
    /\ loop_pc' = "drain"
    /\ UNCHANGED <<is_streaming, available_files, selected_file_index,
                   auto_play_next, streaming_session, streaming_cancel,
                   pending_torrent_info, search_id, is_searching, has_results,
                   auto_race, ipc, queue, searches, nsess, token, sess_kind,
                   setup_pc, created, cleaned, nfiles, polls, tmdbVars, pollVars, tvVars, raceVars, fnVars>>

\* Streaming view, q/Esc: cancel the session
StreamingQuit ==
    /\ loop_pc = "input"
    /\ view = "Streaming"
    /\ token' = CancelTaken(streaming_cancel)
    /\ streaming_cancel' = 0
    /\ cleaned' = CleanupTaken(streaming_session)
    /\ streaming_session' = 0
    /\ pending_torrent_info' = 0
    /\ available_files' = NoFiles
    /\ view' = ViewAfterStream
    /\ streaming_state' = "Connecting"
    /\ is_streaming' = FALSE
    /\ loop_pc' = "drain"
    /\ UNCHANGED <<selected_file_index, current_episode_index, next_episode_ready,
                   auto_play_next, search_id, is_searching, has_results, auto_race,
                   ipc, queue, searches, nsess, sess_kind, setup_pc, created, nfiles,
                   players, polls, tmdbVars, pollVars, tvVars, raceVars, fnVars>>

\* Streaming view, n while a next episode exists: the token is taken and signaled
StreamingSkip ==
    /\ loop_pc = "input"
    /\ view = "Streaming"
    /\ HasNextEpisode(current_episode_index, available_files.n)
    /\ token' = CancelTaken(streaming_cancel)
    /\ streaming_cancel' = 0
    /\ loop_pc' = "drain"
    /\ UNCHANGED <<view, is_streaming, streaming_state, available_files,
                   selected_file_index, current_episode_index, next_episode_ready,
                   auto_play_next, streaming_session, pending_torrent_info,
                   search_id, is_searching, has_results, auto_race, ipc, queue,
                   searches, nsess, sess_kind, setup_pc, created, cleaned, nfiles,
                   players, polls, tmdbVars, pollVars, tvVars, raceVars, fnVars>>

\* try_recv finds the channel empty: the loop goes on to poll for input
DrainEmpty ==
    /\ loop_pc = "drain"
    /\ queue = <<>>
    /\ loop_pc' = "input"
    /\ UNCHANGED <<view, is_streaming, streaming_state, available_files,
                   selected_file_index, current_episode_index, next_episode_ready,
                   auto_play_next, streaming_session, streaming_cancel,
                   pending_torrent_info, search_id, is_searching, has_results,
                   auto_race, ipc, queue, searches, nsess, token, sess_kind,
                   setup_pc, created, cleaned, nfiles, players, polls, tmdbVars, pollVars, tvVars, raceVars, fnVars>>

\* the validation an auto-race is given: keywords of app.search_input (the
\* query of the current search) and of the stored TMDB title, and the stored
\* TMDB year
ValidationFrom(query, tmdb) == [search |-> query, tmdb |-> tmdb]

\* UiMessage::SearchComplete: stale results are dropped; otherwise the results
\* are stored and, with auto-race on and nothing streaming, a race is started
OnSearchComplete ==
    /\ loop_pc = "drain"
    /\ queue # <<>>
    /\ Head(queue).type = "SearchComplete"
    /\ queue' = Tail(queue)
    /\ IF IsStale(Head(queue).arg.search_id, search_id)
       THEN UNCHANGED <<appVars, sessVars, race_criteria>>
       ELSE /\ is_searching' = FALSE
            /\ has_results' = Head(queue).arg.found
            /\ IF Head(queue).arg.found /\ auto_race > 0 /\ ~is_streaming
               THEN /\ nsess < MaxSessions
                    /\ token' = CancelTaken(streaming_cancel)
                    /\ cleaned' = CleanupTaken(streaming_session)
                    /\ streaming_session' = 0
                    /\ available_files' = NoFiles
                    /\ pending_torrent_info' = 0
                    /\ is_streaming' = TRUE
                    /\ view' = "Streaming"
                    /\ streaming_state' = "Connecting"
                    /\ nsess' = nsess + 1
                    /\ streaming_cancel' = nsess + 1
                    /\ sess_kind' = [sess_kind EXCEPT ![nsess + 1] = "race"]
                    /\ setup_pc' = [setup_pc EXCEPT ![nsess + 1] = "status"]
                    /\ race_criteria' = [race_criteria EXCEPT ![nsess + 1] =
                                            ValidationFrom(search_id, tmdb_info)]
               ELSE /\ view' = IF Head(queue).arg.found THEN "Results" ELSE view
                    /\ UNCHANGED <<is_streaming, streaming_state, available_files,
                                   streaming_session, streaming_cancel,
                                   pending_torrent_info, nsess, token, sess_kind,
                                   setup_pc, cleaned, race_criteria>>
    /\ UNCHANGED <<selected_file_index, current_episode_index, next_episode_ready,
                   auto_play_next, search_id, auto_race, ipc, loop_pc, searches,
                   created, nfiles, players, polls, tmdb_info, tmdb_lookups,
                   pollVars, tvVars, raceVars, fnVars>>

\* UiMessage::TmdbInfo: the metadata is stored
OnTmdbInfo ==
    /\ loop_pc = "drain"
    /\ queue # <<>>
    /\ Head(queue).type = "TmdbInfo"
    /\ queue' = Tail(queue)
    /\ tmdb_info' = Head(queue).arg
    /\ UNCHANGED <<view, is_streaming, streaming_state, available_files,
                   selected_file_index, current_episode_index, next_episode_ready,
                   auto_play_next, streaming_session, streaming_cancel,
                   pending_torrent_info, search_id, is_searching, has_results,
                   auto_race, ipc, loop_pc, searches, nsess, token, sess_kind,
                   setup_pc, created, cleaned, nfiles, players, polls,
                   tmdb_lookups, race_criteria, pollVars, tvVars, raceVars, fnVars>>

\* UiMessage::SearchError
OnSearchError ==
    /\ loop_pc = "drain"
    /\ queue # <<>>
    /\ Head(queue).type = "SearchError"
    /\ queue' = Tail(queue)
    /\ is_searching' = FALSE
    /\ UNCHANGED <<view, is_streaming, streaming_state, available_files,
                   selected_file_index, current_episode_index, next_episode_ready,
                   auto_play_next, streaming_session, streaming_cancel,
                   pending_torrent_info, search_id, has_results, auto_race, ipc,
                   loop_pc, searches, nsess, token, sess_kind, setup_pc, created,
                   cleaned, nfiles, players, polls, tmdbVars, pollVars, tvVars, raceVars, fnVars>>

\* the TMDB fetches of the TV browser followed at once
MaxFetches == 1

\* the searches started in a run of the TV browser
MaxTvSearches == 2

\* what is left of the tasks in flight once the k-th has ended
Without(tasks, k) ==
    [i \in 1..(Len(tasks) - 1) |-> IF i < k THEN tasks[i] ELSE tasks[i + 1]]

\* Discovery view, Enter on a TV show: the details fetch is spawned
DiscoveryEnterTv ==
    /\ loop_pc = "input"
    /\ view = "Discovery"
    /\ Len(tv_fetches) < MaxFetches
    /\ is_fetching_tv_details' = TRUE
    /\ tv_fetches' = Append(tv_fetches, "details")
    /\ loop_pc' = "drain"
    /\ UNCHANGED <<view, is_streaming, streaming_state, available_files,
                   selected_file_index, current_episode_index, next_episode_ready,
                   auto_play_next, streaming_session, streaming_cancel,
                   pending_torrent_info, search_id, is_searching, has_results,
                   auto_race, ipc, queue, searches, nsess, token, sess_kind,
                   setup_pc, created, cleaned, nfiles, players, polls, tmdbVars,
                   pollVars, has_tv_details, episode_search, cancelled_searches, raceVars,
                   fnVars>>

\* spawn_tv_details_fetch and the season fetch of TvSeasons Enter: the k-th
\* fetch in flight sends what it loaded, or ends silently when TMDB failed
TvFetchFinish(k) ==
    /\ k \in 1..Len(tv_fetches)
    /\ tv_fetches' = Without(tv_fetches, k)
    /\ \/ /\ CanSend
          /\ queue' = Append(queue,
                 Msg(IF tv_fetches[k] = "details" THEN "TvDetailsLoaded"
                                                  ELSE "SeasonEpisodesLoaded", 0, 0))
       \/ queue' = queue
    /\ UNCHANGED <<view, is_streaming, streaming_state, available_files,
                   selected_file_index, current_episode_index, next_episode_ready,
                   auto_play_next, streaming_session, streaming_cancel,
                   pending_torrent_info, search_id, is_searching, has_results,
                   auto_race, ipc, loop_pc, searches, nsess, token, sess_kind,
                   setup_pc, created, cleaned, nfiles, players, polls, tmdbVars,
                   pollVars, is_fetching_tv_details, has_tv_details,
                   episode_search, cancelled_searches, raceVars, fnVars>>

\* UiMessage::TvDetailsLoaded
OnTvDetailsLoaded ==
    /\ loop_pc = "drain"
    /\ queue # <<>>
    /\ Head(queue).type = "TvDetailsLoaded"
    /\ queue' = Tail(queue)
    /\ has_tv_details' = TRUE
    /\ is_fetching_tv_details' = FALSE
    /\ view' = "TvSeasons"
    /\ UNCHANGED <<is_streaming, streaming_state, available_files,
                   selected_file_index, current_episode_index, next_episode_ready,
                   auto_play_next, streaming_session, streaming_cancel,
                   pending_torrent_info, search_id, is_searching, has_results,
                   auto_race, ipc, loop_pc, searches, nsess, token, sess_kind,
                   setup_pc, created, cleaned, nfiles, players, polls, tmdbVars,
                   pollVars, tv_fetches, episode_search, cancelled_searches, raceVars,
                   fnVars>>

\* UiMessage::SeasonEpisodesLoaded
OnSeasonEpisodesLoaded ==
    /\ loop_pc = "drain"
    /\ queue # <<>>
    /\ Head(queue).type = "SeasonEpisodesLoaded"
    /\ queue' = Tail(queue)
    /\ is_fetching_tv_details' = FALSE
    /\ view' = "TvEpisodes"
    /\ UNCHANGED <<is_streaming, streaming_state, available_files,
                   selected_file_index, current_episode_index, next_episode_ready,
                   auto_play_next, streaming_session, streaming_cancel,
                   pending_torrent_info, search_id, is_searching, has_results,
                   auto_race, ipc, loop_pc, searches, nsess, token, sess_kind,
                   setup_pc, created, cleaned, nfiles, players, polls, tmdbVars,
                   pollVars, has_tv_details, tv_fetches, episode_search,
                   cancelled_searches, raceVars, fnVars>>

\* TvSeasons view, q/Esc
TvSeasonsBack ==
    /\ loop_pc = "input"
    /\ view = "TvSeasons"
    /\ view' = "Discovery"
    /\ has_tv_details' = FALSE
    /\ loop_pc' = "drain"
    /\ UNCHANGED <<is_streaming, streaming_state, available_files,
                   selected_file_index, current_episode_index, next_episode_ready,
                   auto_play_next, streaming_session, streaming_cancel,
                   pending_torrent_info, search_id, is_searching, has_results,
                   auto_race, ipc, queue, searches, nsess, token, sess_kind,
                   setup_pc, created, cleaned, nfiles, players, polls, tmdbVars,
                   pollVars, is_fetching_tv_details, tv_fetches, episode_search,
                   cancelled_searches, raceVars, fnVars>>

\* TvSeasons view, Enter on a season while no fetch is pending: the season's
\* episodes are fetched
TvSeasonsEnter ==
    /\ loop_pc = "input"
    /\ view = "TvSeasons"
    /\ ~is_fetching_tv_details
    /\ Len(tv_fetches) < MaxFetches
    /\ is_fetching_tv_details' = TRUE
    /\ tv_fetches' = Append(tv_fetches, "season")
    /\ loop_pc' = "drain"
    /\ UNCHANGED <<view, is_streaming, streaming_state, available_files,
                   selected_file_index, current_episode_index, next_episode_ready,
                   auto_play_next, streaming_session, streaming_cancel,
                   pending_torrent_info, search_id, is_searching, has_results,
                   auto_race, ipc, queue, searches, nsess, token, sess_kind,
                   setup_pc, created, cleaned, nfiles, players, polls, tmdbVars,
                   pollVars, has_tv_details, episode_search, cancelled_searches, raceVars,
                   fnVars>>

\* TvEpisodes view, q/Esc: a search in progress is cancelled, otherwise the
\* view goes back to the seasons.  cancelled_searches records the episode
\* search given up; search_id is left as it is
TvEpisodesEsc ==
    /\ loop_pc = "input"
    /\ view = "TvEpisodes"
    /\ IF is_searching
       THEN /\ is_searching' = FALSE
            /\ cancelled_searches' =
                   IF search_id = episode_search
                   THEN cancelled_searches \cup {search_id}
                   ELSE cancelled_searches
            /\ view' = view
       ELSE /\ view' = "TvSeasons"
            /\ UNCHANGED <<is_searching, cancelled_searches>>
    /\ loop_pc' = "drain"
    /\ UNCHANGED <<is_streaming, streaming_state, available_files,
                   selected_file_index, current_episode_index, next_episode_ready,
                   auto_play_next, streaming_session, streaming_cancel,
                   pending_torrent_info, search_id, has_results, auto_race, ipc,
                   queue, searches, nsess, token, sess_kind, setup_pc, created,
                   cleaned, nfiles, players, polls, tmdbVars, pollVars,
                   is_fetching_tv_details, has_tv_details, tv_fetches,
                   episode_search, raceVars, fnVars>>

\* TvEpisodes view, Enter on an episode while no search is in progress:
\* search_id is incremented and the episode search task carrying it is spawned
TvEpisodesEnter ==
    /\ loop_pc = "input"
    /\ view = "TvEpisodes"
    /\ ~is_searching
    /\ has_tv_details
    /\ search_id < MaxTvSearches
    /\ search_id' = search_id + 1
    /\ is_searching' = TRUE
    /\ searches' = Append(searches, search_id + 1)
    /\ episode_search' = search_id + 1
    /\ loop_pc' = "drain"
    /\ UNCHANGED <<view, is_streaming, streaming_state, available_files,
                   selected_file_index, current_episode_index, next_episode_ready,
                   auto_play_next, streaming_session, streaming_cancel,
                   pending_torrent_info, has_results, auto_race, ipc, queue, nsess,
                   token, sess_kind, setup_pc, created, cleaned, nfiles, players,
                   polls, tmdbVars, pollVars, is_fetching_tv_details,
                   has_tv_details, tv_fetches, cancelled_searches, raceVars, fnVars>>

\* UiMessage::RacingStatus, ProgressUpdate, PlaybackProgress: display fields only
OnTelemetry ==
    /\ loop_pc = "drain"
    /\ queue # <<>>
    /\ Head(queue).type \in {"RacingStatus", "ProgressUpdate", "PlaybackProgress"}
    /\ queue' = Tail(queue)
    /\ UNCHANGED <<view, is_streaming, streaming_state, available_files,
                   selected_file_index, current_episode_index, next_episode_ready,
                   auto_play_next, streaming_session, streaming_cancel,
                   pending_torrent_info, search_id, is_searching, has_results,
                   auto_race, ipc, loop_pc, searches, nsess, token, sess_kind,
                   setup_pc, created, cleaned, nfiles, players, polls, tmdbVars, pollVars, tvVars, raceVars, fnVars>>

\* UiMessage::TorrentMetadata: the session and its torrent are installed; several
\* video files open the file selection, a single one starts its player task
OnTorrentMetadata ==
    /\ loop_pc = "drain"
    /\ queue # <<>>
    /\ Head(queue).type = "TorrentMetadata"
    /\ queue' = Tail(queue)
    /\ LET s == Head(queue).sess
           n == Head(queue).arg
       IN /\ streaming_session' = s
          /\ pending_torrent_info' = s
          /\ IF n > 1
             THEN /\ available_files' = [owner |-> s, n |-> n]
                  /\ selected_file_index' = 0
                  /\ current_episode_index' = 0
                  /\ next_episode_ready' = FALSE
                  /\ view' = "FileSelection"
                  /\ streaming_state' = "FetchingMetadata"
                  /\ players' = players
             ELSE /\ CanSpawnPlayer
                  /\ streaming_state' = "Ready"
                  /\ view' = "Streaming"
                  /\ players' = Append(players,
                         Player(s, "single", TokenOrDefault(streaming_cancel), <<s, 0>>))
                  \* current_episode_index and available_files are left as they are
                  /\ UNCHANGED <<available_files, selected_file_index,
                                 current_episode_index, next_episode_ready>>
    /\ UNCHANGED <<is_streaming, auto_play_next, streaming_cancel, search_id,
                   is_searching, has_results, auto_race, ipc, loop_pc, searches,
                   nsess, token, sess_kind, setup_pc, created, cleaned, nfiles,
                   polls, tmdbVars, pollVars, tvVars, raceVars, fnVars>>

\* UiMessage::StreamError
OnStreamError ==
    /\ loop_pc = "drain"
    /\ queue # <<>>
    /\ Head(queue).type = "StreamError"
    /\ queue' = Tail(queue)
    /\ streaming_state' = "Error"
    /\ is_streaming' = FALSE
    /\ UNCHANGED <<view, available_files, selected_file_index, current_episode_index,
                   next_episode_ready, auto_play_next, streaming_session,
                   streaming_cancel, pending_torrent_info, search_id, is_searching,
                   has_results, auto_race, ipc, loop_pc, searches, nsess, token,
                   sess_kind, setup_pc, created, cleaned, nfiles, players, polls, tmdbVars, pollVars, tvVars, raceVars, fnVars>>

\* UiMessage::PlayerExited: auto-advance to the next episode, or go back to the
\* file selection, or tear the session down
OnPlayerExited ==
    /\ loop_pc = "drain"
    /\ queue # <<>>
    /\ Head(queue).type = "PlayerExited"
    /\ queue' = Tail(queue)
    /\ LET has_next == HasNextEpisode(current_episode_index, available_files.n)
           should_auto_play == auto_play_next /\ has_next /\ available_files.n > 1
       IN IF should_auto_play
          THEN \* advance_to_next_episode, then the player task of the next file
               /\ current_episode_index' = AdvanceIndex(current_episode_index)
               /\ selected_file_index' = AdvanceIndex(current_episode_index)
               /\ next_episode_ready' = FALSE
               /\ streaming_state' = "Ready"
               /\ IF streaming_session # 0 /\ pending_torrent_info # 0
                  THEN /\ CanSpawnPlayer
                       /\ players' = Append(players,
                              Player(streaming_session, "auto",
                                     TokenOrDefault(streaming_cancel),
                                     <<available_files.owner,
                                       AdvanceIndex(current_episode_index)>>))
                  ELSE players' = players
               /\ UNCHANGED <<view, is_streaming, available_files, streaming_session,
                              pending_torrent_info, cleaned>>
          ELSE IF has_next /\ available_files.n > 1
          THEN /\ selected_file_index' = current_episode_index + 1
               /\ view' = "FileSelection"
               /\ streaming_state' = "FetchingMetadata"
               /\ UNCHANGED <<current_episode_index, next_episode_ready, players,
                              is_streaming, available_files, streaming_session,
                              pending_torrent_info, cleaned>>
          ELSE /\ cleaned' = CleanupTaken(streaming_session)
               /\ streaming_session' = 0
               /\ pending_torrent_info' = 0
               /\ available_files' = NoFiles
               /\ view' = ViewAfterStream
               /\ streaming_state' = "Connecting"
               /\ is_streaming' = FALSE
               /\ UNCHANGED <<current_episode_index, selected_file_index,
                              next_episode_ready, players>>
    /\ UNCHANGED <<auto_play_next, streaming_cancel, search_id, is_searching,
                   has_results, auto_race, ipc, loop_pc, searches, nsess, token,
                   sess_kind, setup_pc, created, nfiles, polls, tmdbVars, pollVars, tvVars, raceVars, fnVars>>

\* auto-race task: the RacingStatus message, sent before anything is checked
RaceTaskStatus(s) ==
    /\ setup_pc[s] = "status"
    /\ CanSend
    /\ queue' = Append(queue, Msg("RacingStatus", s, 0))
    /\ setup_pc' = [setup_pc EXCEPT ![s] = "creating"]
    /\ UNCHANGED <<view, is_streaming, streaming_state, available_files,
                   selected_file_index, current_episode_index, next_episode_ready,
                   auto_play_next, streaming_session, streaming_cancel,
                   pending_torrent_info, search_id, is_searching, has_results,
                   auto_race, ipc, loop_pc, searches, nsess, token, sess_kind,
                   created, cleaned, nfiles, players, polls, tmdbVars, pollVars, tvVars, raceVars, fnVars>>

\* Results Enter task: the cancellation check before the session is created
DirectTaskStart(s) ==
    /\ setup_pc[s] = "start"
    /\ setup_pc' = [setup_pc EXCEPT ![s] = IF token[s] THEN "send_exit" ELSE "creating"]
    /\ UNCHANGED <<view, is_streaming, streaming_state, available_files,
                   selected_file_index, current_episode_index, next_episode_ready,
                   auto_play_next, streaming_session, streaming_cancel,
                   pending_torrent_info, search_id, is_searching, has_results,
                   auto_race, ipc, loop_pc, queue, searches, nsess, token, sess_kind,
                   created, cleaned, nfiles, players, polls, tmdbVars, pollVars, tvVars, raceVars, fnVars>>

\* StreamingSession::new returns, and on success the task checks the token:
\* a cancelled task cleans up (and the Results Enter task acknowledges)
SessionNew(s) ==
    /\ setup_pc[s] = "creating"
    /\ \/ /\ created' = [created EXCEPT ![s] = TRUE]
          /\ IF token[s]
             THEN /\ cleaned' = [cleaned EXCEPT ![s] = TRUE]
                  /\ setup_pc' = [setup_pc EXCEPT ![s] =
                         IF sess_kind[s] = "direct" THEN "send_exit" ELSE "done"]
             ELSE /\ cleaned' = cleaned
                  /\ setup_pc' = [setup_pc EXCEPT ![s] =
                         IF sess_kind[s] = "direct" THEN "adding" ELSE "racing"]
       \/ /\ setup_pc' = [setup_pc EXCEPT ![s] = "send_err"]
          /\ UNCHANGED <<created, cleaned>>
    /\ UNCHANGED <<view, is_streaming, streaming_state, available_files,
                   selected_file_index, current_episode_index, next_episode_ready,
                   auto_play_next, streaming_session, streaming_cancel,
                   pending_torrent_info, search_id, is_searching, has_results,
                   auto_race, ipc, loop_pc, queue, searches, nsess, token, sess_kind,
                   nfiles, players, polls, tmdbVars, pollVars, tvVars, raceVars, fnVars>>

\* Results Enter task: add_torrent returns; nothing is checked before the
\* result is sent
AddTorrentReturns(s) ==
    /\ setup_pc[s] = "adding"
    /\ \/ \E n \in 1..MaxFiles :
             /\ nfiles' = [nfiles EXCEPT ![s] = n]
             /\ setup_pc' = [setup_pc EXCEPT ![s] = "send_meta"]
       \/ /\ setup_pc' = [setup_pc EXCEPT ![s] = "send_err"]
          /\ nfiles' = nfiles
    /\ UNCHANGED <<view, is_streaming, streaming_state, available_files,
                   selected_file_index, current_episode_index, next_episode_ready,
                   auto_play_next, streaming_session, streaming_cancel,
                   pending_torrent_info, search_id, is_searching, has_results,
                   auto_race, ipc, loop_pc, queue, searches, nsess, token, sess_kind,
                   created, cleaned, players, polls, tmdbVars, pollVars, tvVars, raceVars, fnVars>>

\* auto-race task: race_torrents returns a winner, the exhaustion failure or,
\* once the token is signaled, the cancellation failure; an error is reported
\* only if the token is not signaled, and the session is cleaned up
RaceReturns(s) ==
    /\ setup_pc[s] = "racing"
    /\ \E r \in RaceOutcomes(token[s]) :
          IF r = "Ok"
          THEN /\ \E n \in 1..MaxFiles : nfiles' = [nfiles EXCEPT ![s] = n]
               /\ setup_pc' = [setup_pc EXCEPT ![s] = "send_meta"]
               /\ cleaned' = cleaned
          ELSE IF ~token[s]
          THEN /\ setup_pc' = [setup_pc EXCEPT ![s] = "send_err_cleanup"]
               /\ UNCHANGED <<nfiles, cleaned>>
          ELSE /\ setup_pc' = [setup_pc EXCEPT ![s] = "done"]
               /\ cleaned' = [cleaned EXCEPT ![s] = TRUE]
               /\ nfiles' = nfiles
    /\ UNCHANGED <<view, is_streaming, streaming_state, available_files,
                   selected_file_index, current_episode_index, next_episode_ready,
                   auto_play_next, streaming_session, streaming_cancel,
                   pending_torrent_info, search_id, is_searching, has_results,
                   auto_race, ipc, loop_pc, queue, searches, nsess, token, sess_kind,
                   created, players, polls, tmdbVars, pollVars, tvVars, raceVars, fnVars>>

\* a set-up task delivers its last message and ends
SetupTaskSends(s) ==
    /\ setup_pc[s] \in {"send_exit", "send_err", "send_err_cleanup", "send_meta"}
    /\ CanSend
    /\ queue' = Append(queue,
          CASE setup_pc[s] = "send_exit" -> Msg("PlayerExited", s, 0)
            [] setup_pc[s] = "send_meta" -> Msg("TorrentMetadata", s, nfiles[s])
            [] OTHER -> Msg("StreamError", s, 0))
    /\ cleaned' = IF setup_pc[s] = "send_err_cleanup"
                  THEN [cleaned EXCEPT ![s] = TRUE] ELSE cleaned
    /\ setup_pc' = [setup_pc EXCEPT ![s] = "done"]
    /\ UNCHANGED <<view, is_streaming, streaming_state, available_files,
                   selected_file_index, current_episode_index, next_episode_ready,
                   auto_play_next, streaming_session, streaming_cancel,
                   pending_torrent_info, search_id, is_searching, has_results,
                   auto_race, ipc, loop_pc, searches, nsess, token, sess_kind,
                   created, nfiles, players, polls, tmdbVars, pollVars, tvVars, raceVars, fnVars>>

\* a player task after its subtitle look-up: the single-file and file-selection
\* tasks first check their token; then launch_player succeeds or fails
PlayerLaunch(p) ==
    /\ players[p].pc = "subs"
    /\ IF players[p].kind # "auto" /\ IsCancelled(players[p].tok)
       THEN /\ players' = [players EXCEPT ![p].pc = "send_exit", ![p].progress = FALSE]
            /\ cleaned' = [cleaned EXCEPT ![players[p].sess] = TRUE]
       ELSE /\ \/ players' = [players EXCEPT ![p].pc = "playing", ![p].position = ipc]
               \/ players' = [players EXCEPT ![p].pc =
                      IF players[p].kind = "auto" THEN "send_exit" ELSE "send_err",
                      ![p].progress = (players[p].kind # "auto")]
            /\ cleaned' = cleaned
    /\ UNCHANGED <<view, is_streaming, streaming_state, available_files,
                   selected_file_index, current_episode_index, next_episode_ready,
                   auto_play_next, streaming_session, streaming_cancel,
                   pending_torrent_info, search_id, is_searching, has_results,
                   auto_race, ipc, loop_pc, queue, searches, nsess, token, sess_kind,
                   setup_pc, created, nfiles, polls, tmdbVars, pollVars, tvVars, raceVars, fnVars>>

\* the player exits, or the token the task holds is signaled and the player is
\* killed; the pollers are aborted and, except in the auto-advance task, the
\* session is cleaned up
PlayerStops(p) ==
    /\ players[p].pc = "playing"
    /\ players' = [players EXCEPT ![p].pc = "send_exit", ![p].progress = FALSE,
                                  ![p].position = FALSE]
    /\ cleaned' = IF players[p].kind # "auto"
                  THEN [cleaned EXCEPT ![players[p].sess] = TRUE] ELSE cleaned
    /\ UNCHANGED <<view, is_streaming, streaming_state, available_files,
                   selected_file_index, current_episode_index, next_episode_ready,
                   auto_play_next, streaming_session, streaming_cancel,
                   pending_torrent_info, search_id, is_searching, has_results,
                   auto_race, ipc, loop_pc, queue, searches, nsess, token, sess_kind,
                   setup_pc, created, nfiles, polls, tmdbVars, pollVars, tvVars, raceVars, fnVars>>

\* mutation of TerminalMessage: the task ends on a progress record
TelemetryMessage(pc) == "PlaybackProgress"

\* the last message of a player task: `tx.send(UiMessage::PlayerExited)`, or
\* `tx.send(UiMessage::StreamError(..))` in the Err arm of launch_player
TerminalMessage(pc) == IF pc = "send_exit" THEN "PlayerExited" ELSE "StreamError"

\* a player task delivers PlayerExited, or StreamError after a failed launch,
\* and ends
PlayerTaskSends(p) ==
    /\ players[p].pc \in {"send_exit", "send_err"}
    /\ CanSend
    /\ queue' = Append(queue, Msg(TerminalMessage(players[p].pc), players[p].sess, 0))
    /\ players' = [players EXCEPT ![p].pc = "done", ![p].progress = FALSE]
    /\ UNCHANGED <<view, is_streaming, streaming_state, available_files,
                   selected_file_index, current_episode_index, next_episode_ready,
                   auto_play_next, streaming_session, streaming_cancel,
                   pending_torrent_info, search_id, is_searching, has_results,
                   auto_race, ipc, loop_pc, searches, nsess, token, sess_kind,
                   setup_pc, created, cleaned, nfiles, polls, tmdbVars, pollVars, tvVars, raceVars, fnVars>>

\* the download-progress poller of a player task emits a record
ProgressPoll(p) ==
    /\ players[p].progress
    /\ polls < MaxPolls
    /\ CanSend
    /\ queue' = Append(queue, Msg("ProgressUpdate", players[p].sess, 0))
    /\ polls' = polls + 1
    /\ UNCHANGED <<view, is_streaming, streaming_state, available_files,
                   selected_file_index, current_episode_index, next_episode_ready,
                   auto_play_next, streaming_session, streaming_cancel,
                   pending_torrent_info, search_id, is_searching, has_results,
                   auto_race, ipc, loop_pc, searches, nsess, token, sess_kind,
                   setup_pc, created, cleaned, nfiles, players, tmdbVars, pollVars, tvVars, raceVars, fnVars>>

\* the playback-position poller of a player task emits a record
PositionPoll(p) ==
    /\ players[p].position
    /\ polls < MaxPolls
    /\ CanSend
    /\ queue' = Append(queue, Msg("PlaybackProgress", players[p].sess, 0))
    /\ polls' = polls + 1
    /\ UNCHANGED <<view, is_streaming, streaming_state, available_files,
                   selected_file_index, current_episode_index, next_episode_ready,
                   auto_play_next, streaming_session, streaming_cancel,
                   pending_torrent_info, search_id, is_searching, has_results,
                   auto_race, ipc, loop_pc, searches, nsess, token, sess_kind,
                   setup_pc, created, cleaned, nfiles, players, tmdbVars, pollVars, tvVars, raceVars, fnVars>>

\* a telemetry poller wakes from its sleep with a reading and calls
\* send().await: the record is queued when the channel has room; on a full
\* channel the task waits for capacity; on a dropped receiver send returns
\* Err, on which the download-progress poller breaks and the playback-position
\* poller (`let _ =`) goes back to sleep
PollerEmits(k) ==
    /\ poller[k] = "sleeping"
    /\ polls < MaxEmits
    /\ polls' = polls + 1
    /\ IF ~rx_open
       THEN /\ poller' = [poller EXCEPT ![k] =
                              IF k = "progress" THEN "ended" ELSE "sleeping"]
            /\ queue' = queue
       ELSE IF CanSend
       THEN /\ queue' = Append(queue,
                   Msg(IF k = "progress" THEN "ProgressUpdate" ELSE "PlaybackProgress",
                       streaming_cancel, 0))
            /\ poller' = poller
       ELSE /\ poller' = [poller EXCEPT ![k] = "blocked"]
            /\ queue' = queue
    /\ UNCHANGED <<view, is_streaming, streaming_state, available_files,
                   selected_file_index, current_episode_index, next_episode_ready,
                   auto_play_next, streaming_session, streaming_cancel,
                   pending_torrent_info, search_id, is_searching, has_results,
                   auto_race, ipc, loop_pc, searches, nsess, token, sess_kind,
                   setup_pc, created, cleaned, nfiles, players, tmdbVars, rx_open,
                   tvVars, raceVars, fnVars>>

\* a poller waiting in send().await is woken: by capacity, and the record is
\* queued, or by the receiver being dropped, and send returns Err
PollerResumes(k) ==
    /\ poller[k] = "blocked"
    /\ IF ~rx_open
       THEN /\ poller' = [poller EXCEPT ![k] =
                              IF k = "progress" THEN "ended" ELSE "sleeping"]
            /\ queue' = queue
       ELSE /\ CanSend
            /\ queue' = Append(queue,
                   Msg(IF k = "progress" THEN "ProgressUpdate" ELSE "PlaybackProgress",
                       streaming_cancel, 0))
            /\ poller' = [poller EXCEPT ![k] = "sleeping"]
    /\ UNCHANGED <<view, is_streaming, streaming_state, available_files,
                   selected_file_index, current_episode_index, next_episode_ready,
                   auto_play_next, streaming_session, streaming_cancel,
                   pending_torrent_info, search_id, is_searching, has_results,
                   auto_race, ipc, loop_pc, searches, nsess, token, sess_kind,
                   setup_pc, created, cleaned, nfiles, players, polls, tmdbVars,
                   rx_open, tvVars, raceVars, fnVars>>

\* Ctrl-C: should_quit is set, the stored session is cleaned up and the loop
\* breaks; the token is left alone
LoopBreaks ==
    /\ loop_pc = "input"
    /\ loop_pc' = "stopped"
    /\ cleaned' = CleanupTaken(streaming_session)
    /\ streaming_session' = 0
    /\ UNCHANGED <<view, is_streaming, streaming_state, available_files,
                   selected_file_index, current_episode_index, next_episode_ready,
                   auto_play_next, streaming_cancel, pending_torrent_info,
                   search_id, is_searching, has_results, auto_race, ipc, queue,
                   searches, nsess, token, sess_kind, setup_pc, created, nfiles,
                   players, polls, tmdbVars, pollVars, tvVars, raceVars, fnVars>>

\* run returns after run_app: the receiver is dropped with what it holds
RunReturns ==
    /\ loop_pc = "stopped"
    /\ loop_pc' = "returned"
    /\ rx_open' = FALSE
    /\ queue' = <<>>
    /\ UNCHANGED <<view, is_streaming, streaming_state, available_files,
                   selected_file_index, current_episode_index, next_episode_ready,
                   auto_play_next, streaming_session, streaming_cancel,
                   pending_torrent_info, search_id, is_searching, has_results,
                   auto_race, ipc, searches, nsess, token, sess_kind, setup_pc,
                   created, cleaned, nfiles, players, polls, tmdbVars, poller,
                   tvVars, raceVars, fnVars>>

LoopNext ==
    \/ StartSearch
    \/ \E k \in 1..Len(searches) : SearchFinish(k)
    \/ InputTimeout
    \/ ResultsBack
    \/ ResultsEnter
    \/ FileSelectionEsc
    \/ FileSelectionMove
    \/ FileSelectionEnter
    \/ StreamingQuit
    \/ StreamingSkip
    \/ DrainEmpty
    \/ OnSearchComplete
    \/ OnSearchError
    \/ OnTelemetry
    \/ OnTorrentMetadata
    \/ OnStreamError
    \/ OnPlayerExited
    \/ \E s \in Sessions : RaceTaskStatus(s)
    \/ \E s \in Sessions : DirectTaskStart(s)
    \/ \E s \in Sessions : SessionNew(s)
    \/ \E s \in Sessions : AddTorrentReturns(s)
    \/ \E s \in Sessions : RaceReturns(s)
    \/ \E s \in Sessions : SetupTaskSends(s)
    \/ \E p \in 1..Len(players) : PlayerLaunch(p)
    \/ \E p \in 1..Len(players) : PlayerStops(p)
    \/ \E p \in 1..Len(players) : PlayerTaskSends(p)
    \/ \E p \in 1..Len(players) : ProgressPoll(p)
    \/ \E p \in 1..Len(players) : PositionPoll(p)

RaceNext ==
    \/ RaceCall
    \/ \E i \in Indices : TaskFinish(i)
    \/ RaceRecv
    \/ RaceCancelled
    \/ SignalCancel

(***************************************************************************)
(* Calls of the pure functions, one call per behaviour: the initial state  *)
(* holds the arguments, the call's action stores what the function         *)
(* returns.                                                                *)
(***************************************************************************)
Call(f, a) == fn = f /\ args = a /\ ret = None

Returns(f, value) ==
    /\ fn = f
    /\ ret = None
    /\ ret' = Some(value)
    /\ UNCHANGED <<fn, args, raceVars, loopVars>>

\* keyword lists handed to TorrentValidation::new (a public constructor:
\* any Vec<String>, not only the output of extract_keywords)
MatchKeywords == { <<>>,
                   << <<"d", "u", "n", "e">> >>,
                   << <<"D", "u", "n", "e">> >>,
                   << <<"x", "y", "z">>, <<"d", "u", "n", "e">> >> }
MatchYears == {None, Some(19), Some(7)}
MatchNames == FileNames \cup { <<>>,
                               <<"D", "U", "N", "E">>,
                               <<"a", "7", "x", "y", "z">> }

MatchesCalls ==
    { [v |-> TorrentValidation(k, y), filename |-> n] :
          k \in MatchKeywords, y \in MatchYears, n \in MatchNames }

\* v.matches(filename)
CallMatches == Returns("matches", Matches(args.v, args.filename))

\* char::is_alphanumeric; the letters outside ASCII are represented by one
\* of them
NonAsciiLetters == {"é"}
IsAlphanumeric(c) ==
    \/ \E i \in 1..Len(UpperChars) : UpperChars[i] = c
    \/ \E i \in 1..Len(LowerChars) : LowerChars[i] = c
    \/ \E i \in 1..Len(DigitChars) : DigitChars[i] = c
    \/ c \in NonAsciiLetters

\* char::len_utf8
LenUtf8(c) == IF c \in NonAsciiLetters THEN 2 ELSE 1

\* str::len: the length in bytes
RECURSIVE StrLen(_)
StrLen(w) == IF Len(w) = 0 THEN 0 ELSE LenUtf8(Head(w)) + StrLen(Tail(w))

\* str::split(|c| !c.is_alphanumeric()): the pieces between separators, the
\* empty ones included
RECURSIVE Split(_)
Split(q) ==
    IF \A i \in 1..Len(q) : IsAlphanumeric(q[i]) THEN <<q>>
    ELSE LET i == CHOOSE i \in 1..Len(q) :
                      /\ ~IsAlphanumeric(q[i])
                      /\ \A j \in 1..(i - 1) : IsAlphanumeric(q[j])
         IN <<SubSeq(q, 1, i - 1)>> \o Split(SubSeq(q, i + 1, Len(q)))

\* an ASCII digit
IsDigit(c) == \E d \in 1..Len(DigitChars) : DigitChars[d] = c

\* the decimal value of a string of ASCII digits, saturating above the
\* range of u16 (where the parse fails with PosOverflow)
RECURSIVE DigitsValue(_)
DigitsValue(w) ==
    IF Len(w) = 0 THEN 0
    ELSE LET front == DigitsValue(SubSeq(w, 1, Len(w) - 1))
             d == CHOOSE d \in 0..9 : DigitChars[d + 1] = w[Len(w)]
         IN IF front > 6553 THEN 65536 ELSE Min(65536, 10 * front + d)

\* word.parse::<u16>().is_ok() for a word of alphanumeric characters
ParsesAsU16(w) ==
    /\ Len(w) > 0
    /\ \A i \in 1..Len(w) : \E d \in 1..Len(DigitChars) : DigitChars[d] = w[i]
    /\ DigitsValue(w) < 65536

stop_words == {<<"t", "h", "e">>,
               <<"a">>,
               <<"a", "n">>,
               <<"a", "n", "d">>,
               <<"o", "r">>,
               <<"o", "f">>,
               <<"i", "n">>,
               <<"o", "n">>,
               <<"a", "t">>,
               <<"t", "o">>,
               <<"f", "o", "r">>}

\* mutation of IsStopWord: nothing is a stop word
NoStopWord(w) == FALSE

\* stop_words.contains(&word.as_str())
IsStopWord(w) == w \in stop_words

\* the four filters of extract_keywords, in the order of the code
LongEnough(w) == StrLen(w) >= 3
NotStopWord(w) == ~IsStopWord(w)
NotYear(w) == ~ParsesAsU16(w) \/ StrLen(w) # 4

\* Iterator::map over a sequence
MapLower(ws) == [i \in 1..Len(ws) |-> ToLowercase(ws[i])]

\* TorrentValidation::extract_keywords
ExtractKeywords(query) ==
    SelectSeq(SelectSeq(MapLower(SelectSeq(Split(query), LongEnough)),
                        NotStopWord),
              NotYear)

\* pieces a query is put together from: words, numbers and separators
QueryParts == {<<"t", "h", "e">>,
               <<"T", "h", "e">>,
               <<"o", "f">>,
               <<"f", "o", "r">>,
               <<"l", "o", "r", "d">>,
               <<"n", "o">>,
               <<"2", "0", "0", "1">>,
               <<"3", "0", "0">>,
               <<"x", "é">>,
               <<" ">>,
               <<"-">>,
               <<":", " ">>}
MaxParts == 3

RECURSIVE Concatenations(_)
Concatenations(n) ==
    IF n = 0 THEN {<<>>}
    ELSE LET shorter == Concatenations(n - 1)
         IN shorter \cup {q \o part : q \in shorter, part \in QueryParts}

LordOfTheRings == <<"T", "h", "e", " ", "L", "o", "r", "d", " ", "o", "f", " ", "t", "h", "e", " ", "R", "i", "n", "g", "s", " ", "2", "0", "0", "1">>
SpiderMan == <<"S", "p", "i", "d", "e", "r", "-", "M", "a", "n", ":", " ", "N", "o", " ", "W", "a", "y", " ", "H", "o", "m", "e", " ", "(", "2", "0", "2", "1", ")">>

Queries == Concatenations(MaxParts) \cup {LordOfTheRings, SpiderMan}

\* TorrentValidation::extract_keywords(query)
CallExtractKeywords ==
    Returns("extract_keywords", ExtractKeywords(args.query))

(***************************************************************************)
(* VideoFile::episode_sort_key and sort_episodes                           *)
(***************************************************************************)
\* u32::MAX, held at the top of the checker's integer range: it lies above
\* every season (two digits) and episode (three digits) a pattern captures
U32Max == 2147483647

\* \d{1,max} at position p, greedy: how many digits it takes (0: no match)
DigitRun(s, p, max) ==
    CHOOSE n \in 0..max :
        /\ \A k \in 0..(n - 1) : p + k <= Len(s) /\ IsDigit(s[p + k])
        /\ n = max \/ p + n > Len(s) \/ ~IsDigit(s[p + n])

CharIs(s, p, chars) == p <= Len(s) /\ s[p] \in chars

\* (?i)[Ss](\d{1,2})[Ee](\d{1,3}) matches at position p
SxexAt(s, p) ==
    /\ CharIs(s, p, {"S", "s"})
    /\ LET a == DigitRun(s, p + 1, 2)
       IN /\ a >= 1
          /\ CharIs(s, p + 1 + a, {"E", "e"})
          /\ DigitRun(s, p + 2 + a, 3) >= 1

\* (?i)(\d{1,2})x(\d{1,3}) matches at position p
XAt(s, p) ==
    LET a == DigitRun(s, p, 2)
    IN /\ a >= 1
       /\ CharIs(s, p + a, {"x", "X"})
       /\ DigitRun(s, p + a + 1, 3) >= 1

\* Regex::captures of the S01E02 pattern: the leftmost match, its two
\* groups parsed as u32
SxexKey(s) ==
    IF \E p \in 1..Len(s) : SxexAt(s, p)
    THEN LET p == CHOOSE p \in 1..Len(s) :
                      SxexAt(s, p) /\ \A q \in 1..(p - 1) : ~SxexAt(s, q)
             a == DigitRun(s, p + 1, 2)
             b == DigitRun(s, p + 2 + a, 3)
         IN Some(<<DigitsValue(SubSeq(s, p + 1, p + a)),
                   DigitsValue(SubSeq(s, p + 2 + a, p + 1 + a + b))>>)
    ELSE None

\* Regex::captures of the 1x02 pattern
XKey(s) ==
    IF \E p \in 1..Len(s) : XAt(s, p)
    THEN LET p == CHOOSE p \in 1..Len(s) :
                      XAt(s, p) /\ \A q \in 1..(p - 1) : ~XAt(s, q)
             a == DigitRun(s, p, 2)
             b == DigitRun(s, p + a + 1, 3)
         IN Some(<<DigitsValue(SubSeq(s, p, p + a - 1)),
                   DigitsValue(SubSeq(s, p + a + 1, p + a + b))>>)
    ELSE None

\* VideoFile::episode_sort_key
episode_sort_key(f) ==
    IF IsSome(SxexKey(f.name)) THEN Unwrap(SxexKey(f.name))
    ELSE IF IsSome(XKey(f.name)) THEN Unwrap(XKey(f.name))
    ELSE <<U32Max, U32Max>>

\* mutation of KeyLe: the episode alone is compared
EpisodeLe(a, b) == a[2] <= b[2]

\* Ord for (u32, u32): a <= b, lexicographically
KeyLe(a, b) == a[1] < b[1] \/ (a[1] = b[1] /\ a[2] <= b[2])

\* slice::sort_by_key, a stable sort: each element goes behind the elements
\* already placed whose key is not greater than its own
InsertByKey(sorted, f) ==
    LET n == Cardinality({i \in 1..Len(sorted) :
                             KeyLe(episode_sort_key(sorted[i]),
                                   episode_sort_key(f))})
    IN SubSeq(sorted, 1, n) \o <<f>> \o SubSeq(sorted, n + 1, Len(sorted))

RECURSIVE SortByKeyFrom(_, _)
SortByKeyFrom(sorted, rest) ==
    IF Len(rest) = 0 THEN sorted
    ELSE SortByKeyFrom(InsertByKey(sorted, Head(rest)), Tail(rest))

\* sort_episodes
sort_episodes(files) == SortByKeyFrom(<<>>, files)

\* names of the files of a torrent
EpisodeNames == {<<"S", "1", "E", "1">>,
                 <<"s", "0", "1", "e", "0", "2">>,
                 <<"S", "1", "E", "1", "0">>,
                 <<"S", "2", "E", "1">>,
                 <<"1", "x", "0", "3">>,
                 <<"S", "1", "2", "3", "E", "1">>,
                 <<"a", "b", "c">>,
                 <<"x", "1", "S", "1">>}
MaxVideoFiles == 3

\* a Vec<VideoFile>, each file with its index in the torrent
VideoFile(name, file_idx) == [name |-> name, file_idx |-> file_idx]
FileLists ==
    UNION { { [i \in 1..n |-> VideoFile(ns[i], i - 1)] :
                ns \in [1..n -> EpisodeNames] } : n \in 0..MaxVideoFiles }

\* sort_episodes(&mut files)
CallSortEpisodes == Returns("sort_episodes", sort_episodes(args.files))

(***************************************************************************)
(* App::advance_to_next_episode                                            *)
(***************************************************************************)
\* Vec::get: the element at a 0-based index, if there is one
VecGet(v, idx) == IF idx < Len(v) THEN Some(v[idx + 1]) ELSE None

\* App::advance_to_next_episode on the fields it reads and writes: the
\* fields after the call and what the call returns
advance_to_next_episode(app) ==
    IF HasNextEpisode(app.current_episode_index, Len(app.available_files))
    THEN LET idx == AdvanceIndex(app.current_episode_index)
         IN [app |-> [app EXCEPT !.current_episode_index = idx,
                                 !.selected_file_index = idx,
                                 !.next_episode_ready = FALSE],
             result |-> VecGet(app.available_files, idx)]
    ELSE [app |-> app, result |-> None]

\* the episode fields of App: a file list of up to MaxVideoFiles files,
\* both indices anywhere up to its greatest length
EpisodeList(n) ==
    [i \in 1..n |-> VideoFile(<<"S", "1", "E", DigitChars[i + 1]>>, i - 1)]
EpisodeApps ==
    [current_episode_index : 0..MaxVideoFiles,
     selected_file_index : 0..MaxVideoFiles,
     next_episode_ready : BOOLEAN,
     available_files : {EpisodeList(n) : n \in 0..MaxVideoFiles}]

\* app.advance_to_next_episode()
CallAdvance == Returns("advance_to_next_episode", advance_to_next_episode(args))

(***************************************************************************)
(* StreamingSession::add_torrent and fetch_torrent_file. The responses of  *)
(* the servers, the outcome of Url::parse on the current URL and the       *)
(* answer of the engine are inputs of the call.                            *)
(***************************************************************************)
MAX_REDIRECTS == 10

\* str::starts_with
StartsWith(s, pat) == Len(pat) <= Len(s) /\ SubSeq(s, 1, Len(pat)) = pat

\* str::find: the 0-based offset of the first occurrence, if any
StrFind(s, pat) ==
    IF StrContains(s, pat)
    THEN Some(CHOOSE off \in 0..(Len(s) - Len(pat)) :
                  /\ \A i \in 1..Len(pat) : s[off + i] = pat[i]
                  /\ \A o \in 0..(off - 1) :
                         \E i \in 1..Len(pat) : s[o + i] # pat[i])
    ELSE None

\* urlencoding::decode_binary on the escapes %3A and %FF: the bytes of the
\* text, "0xFF" standing for the byte no UTF-8 text contains
RECURSIVE DecodeBinary(_)
DecodeBinary(s) ==
    IF Len(s) = 0 THEN <<>>
    ELSE IF StartsWith(s, <<"%", "3", "A">>)
         THEN <<":">> \o DecodeBinary(SubSeq(s, 4, Len(s)))
    ELSE IF StartsWith(s, <<"%", "F", "F">>)
         THEN <<"0xFF">> \o DecodeBinary(SubSeq(s, 4, Len(s)))
    ELSE <<Head(s)>> \o DecodeBinary(Tail(s))

\* urlencoding::decode(..).unwrap_or_default(): the decoded text, or the
\* empty text when the bytes are not UTF-8
DecodeOrDefault(s) ==
    LET bytes == DecodeBinary(s)
    IN IF \E i \in 1..Len(bytes) : bytes[i] = "0xFF" THEN <<>> ELSE bytes

MagnetScheme == <<"m", "a", "g", "n", "e", "t", ":">>
HttpScheme == <<"h", "t", "t", "p", ":", "/", "/">>
HttpsScheme == <<"h", "t", "t", "p", "s", ":", "/", "/">>

\* the magnet URL taken from a Location that contains "magnet:"
ExtractMagnet(location) ==
    IF StartsWith(location, MagnetScheme) THEN location
    ELSE LET decoded == DecodeOrDefault(location)
             idx == StrFind(decoded, MagnetScheme)
         IN IF IsSome(idx)
            THEN SubSeq(decoded, Unwrap(idx) + 1, Len(decoded))
            ELSE location

\* StreamError, and the two results of fetch_torrent_file
TorrentError(msg) == [variant |-> "TorrentError", msg |-> msg, magnet |-> <<>>]
MagnetRedirect(magnet) ==
    [variant |-> "MagnetRedirect", msg |-> "", magnet |-> magnet]
NoError == [variant |-> "", msg |-> "", magnet |-> <<>>]
\* Ok(bytes.to_vec()): the body of the k-th response of the fetch
FetchOk(k) == [ok |-> TRUE, err |-> NoError, body |-> k]
FetchErr(e) == [ok |-> FALSE, err |-> e, body |-> 0]

\* mutation of TooManyRedirects: the tenth redirect is already refused
TooManyAtLimit(redirects) == redirects >= MAX_REDIRECTS

\* `if redirects > MAX_REDIRECTS`
TooManyRedirects(redirects) == redirects > MAX_REDIRECTS

\* one response: its status class and its Location header
Response(status, location) == [status |-> status, location |-> location]

\* `location.starts_with("magnet:") || location.contains("magnet:")`
IsMagnetLocation(location) ==
    StartsWith(location, MagnetScheme) \/ StrContains(location, MagnetScheme)

\* the loop of fetch_torrent_file from its k-th request on, `redirects`
\* counted so far; a request past the end of the responses fails to send
RECURSIVE FetchFrom(_, _, _, _)
FetchFrom(responses, k, redirects, base_parses) ==
    IF k > Len(responses) THEN FetchErr(TorrentError("failed to fetch"))
    ELSE LET r == responses[k]
         IN IF r.status = "2xx" THEN FetchOk(k)
            ELSE IF r.status = "2xx unreadable"
                 THEN FetchErr(TorrentError("failed to read"))
            ELSE IF r.status = "3xx"
                 THEN IF TooManyRedirects(redirects + 1)
                      THEN FetchErr(TorrentError("too many redirects"))
                      ELSE IF ~IsSome(r.location)
                      THEN FetchErr(TorrentError(
                                        "redirect without location header"))
                      ELSE LET location == Unwrap(r.location)
                           IN IF IsMagnetLocation(location)
                              THEN FetchErr(MagnetRedirect(
                                                ExtractMagnet(location)))
                              ELSE IF /\ ~StartsWith(location, HttpScheme)
                                      /\ ~StartsWith(location, HttpsScheme)
                                      /\ StartsWith(location, <<"/">>)
                                      /\ ~base_parses
                              THEN FetchErr(TorrentError("url parse error"))
                              ELSE FetchFrom(responses, k + 1, redirects + 1,
                                             base_parses)
            ELSE FetchErr(TorrentError("HTTP status"))

\* StreamingSession::fetch_torrent_file
fetch_torrent_file(responses, base_parses) ==
    FetchFrom(responses, 1, 0, base_parses)

\* what add_torrent hands to the engine and what it returns
AddResult(ok, err, submitted) ==
    [ok |-> ok, err |-> err, submitted |-> submitted]

\* add_torrent_bytes and add_torrent_via_http_full: the payload goes to the
\* engine, whose answer decides the result
Submit(kind, body, engine_ok) ==
    AddResult(engine_ok,
              IF engine_ok THEN NoError ELSE TorrentError("engine"),
              Some([kind |-> kind, body |-> body]))

\* StreamingSession::add_torrent
add_torrent(url, responses, base_parses, engine_ok) ==
    IF StartsWith(url, HttpScheme) \/ StartsWith(url, HttpsScheme)
    THEN LET fetched == fetch_torrent_file(responses, base_parses)
         IN IF fetched.ok THEN Submit("bytes", <<>>, engine_ok)
            ELSE IF fetched.err.variant = "MagnetRedirect"
                 THEN Submit("magnet", fetched.err.magnet, engine_ok)
            ELSE AddResult(FALSE, fetched.err, None)
    ELSE Submit("magnet", url, engine_ok)

\* Location headers: a magnet link, a magnet link embedded in a path with an
\* escaped colon further on, one embedded in a path that does not decode to
\* UTF-8; then the redirects that are followed: absolute, absolute path,
\* relative path, and a path whose "magnet" is followed by an escaped colon
MagnetLocations == {<<"m", "a", "g", "n", "e", "t", ":", "?", "x">>,
                    <<"/", "d", "/", "m", "a", "g", "n", "e", "t", ":", "?", "x", "%", "3", "A", "y">>,
                    <<"/", "d", "%", "F", "F", "/", "m", "a", "g", "n", "e", "t", ":", "?", "x">>}
FollowedLocations == {<<"h", "t", "t", "p", ":", "/", "/", "b", "/", "t">>,
                      <<"/", "t">>,
                      <<"t">>,
                      <<"/", "d", "/", "m", "a", "g", "n", "e", "t", "%", "3", "A", "?", "x">>}

\* what ends a chain of followed redirects
LastResponses ==
    {Response("2xx", None), Response("2xx unreadable", None),
     Response("3xx", None), Response("404", None)}
        \cup {Response("3xx", Some(l)) : l \in MagnetLocations}

MaxHops == 11

\* the responses of one fetch: up to MaxHops followed redirects to one kind
\* of Location, then possibly one last response
ResponseChains ==
    UNION { { [i \in 1..k |-> Response("3xx", Some(l))] \o last :
                l \in FollowedLocations,
                last \in {<<>>} \cup {<<r>> : r \in LastResponses} } :
            k \in 0..MaxHops }

CandidateUrls == {<<"h", "t", "t", "p", ":", "/", "/", "a", "/", "t">>, <<"h", "t", "t", "p", "s", ":", "/", "/", "a", "/", "t">>, <<"m", "a", "g", "n", "e", "t", ":", "?", "y">>}

AddTorrentCalls ==
    [url : CandidateUrls, responses : ResponseChains,
     base_parses : BOOLEAN, engine_ok : BOOLEAN]

(***************************************************************************)
(* The TorrentInfo built from resolved metadata, as add_torrent_inner and   *)
(* add_torrent_via_http_full build it from the file list of the torrent.    *)
(***************************************************************************)
VIDEO_EXTENSIONS ==
    { <<"m", "p", "4">>, <<"m", "k", "v">>, <<"a", "v", "i">>, <<"m", "o", "v">>,
      <<"w", "m", "v">>, <<"f", "l", "v">>, <<"w", "e", "b", "m">>, <<"m", "4", "v">> }

\* str::ends_with
EndsWith(s, pat) ==
    Len(pat) <= Len(s) /\ SubSeq(s, Len(s) - Len(pat) + 1, Len(s)) = pat

\* `VIDEO_EXTENSIONS.iter().any(|ext| name_lower.ends_with(ext))`
IsVideoName(name) ==
    \E ext \in VIDEO_EXTENSIONS : EndsWith(ToLowercase(name), ext)

\* VideoFile with its size (the stream URL is fixed by file_idx)
SizedVideoFile(name, file_idx, size) ==
    [name |-> name, file_idx |-> file_idx, size |-> size]

\* `.iter().enumerate().filter_map(..).collect()` over the files from the
\* k-th on
RECURSIVE VideoFilesFrom(_, _)
VideoFilesFrom(files, k) ==
    IF k > Len(files) THEN <<>>
    ELSE IF IsVideoName(files[k].name)
         THEN <<SizedVideoFile(files[k].name, k - 1, files[k].len)>>
                  \o VideoFilesFrom(files, k + 1)
         ELSE VideoFilesFrom(files, k + 1)

\* mutation of MaxBySize: the first file
FirstFile(v) == v[1]

\* `.iter().max_by_key(|f| f.size)`: the last of the largest elements
MaxBySize(v) ==
    v[CHOOSE i \in 1..Len(v) :
          /\ \A j \in 1..Len(v) : v[j].size <= v[i].size
          /\ \A j \in (i + 1)..Len(v) : v[j].size < v[i].size]

InfoErr(e) == [ok |-> FALSE, err |-> e, video_files |-> <<>>, selected_file |-> <<>>]
InfoOk(video_files, selected_file) ==
    [ok |-> TRUE, err |-> "", video_files |-> video_files,
     selected_file |-> <<selected_file>>]

\* the end of add_torrent_inner ("inner") and of add_torrent_via_http_full
\* ("http"), from the file list of the metadata on: the HTTP path keeps
\* polling while the list is empty and gives up with MetadataTimeout
torrent_info(path, files) ==
    IF path = "http" /\ Len(files) = 0 THEN InfoErr("MetadataTimeout")
    ELSE LET video_files == VideoFilesFrom(files, 1)
         IN IF Len(video_files) = 0 THEN InfoErr("NoVideoFiles")
            ELSE InfoOk(video_files, MaxBySize(video_files))

\* file names of a torrent, by what they are, and file lengths
VideoNames == { <<"a", ".", "m", "k", "v">>, <<"B", ".", "M", "P", "4">> }
OtherNames == { <<"s", ".", "s", "r", "t">>, <<"n", ".", "t", "x", "t">> }
MaxFileLen == 2
MaxTorrentFiles == 3
TorrentFiles ==
    UNION { [1..n -> [name : VideoNames \cup OtherNames, len : 0..MaxFileLen]] :
              n \in 0..MaxTorrentFiles }

\* the metadata of a torrent is resolved on either path
CallTorrentInfo == Returns("torrent_info", torrent_info(args.path, args.files))

\* self.fetch_torrent_file(url)
CallFetchTorrentFile ==
    Returns("fetch_torrent_file",
            fetch_torrent_file(args.responses, args.base_parses))

\* session.add_torrent(url)
CallAddTorrent ==
    Returns("add_torrent",
            add_torrent(args.url, args.responses, args.base_parses,
                        args.engine_ok))

(***************************************************************************)
(* calculate_progress. An f64 is held as an exact fraction <<numerator,    *)
(* denominator>> with a positive denominator; rounding is not represented. *)
(***************************************************************************)
FromInt(i) == <<i, 1>>
RatLe(a, b) == a[1] * b[2] <= b[1] * a[2]
RatLt(a, b) == a[1] * b[2] < b[1] * a[2]
RatEq(a, b) == a[1] * b[2] = b[1] * a[2]
RatMul(a, b) == <<a[1] * b[1], a[2] * b[2]>>
\* a / b for b # 0
RatDiv(a, b) ==
    IF b[1] > 0 THEN <<a[1] * b[2], a[2] * b[1]>>
    ELSE <<(0 - a[1]) * b[2], a[2] * (0 - b[1])>>

\* mutation of F64Min: the greater of the two
F64Max(a, b) == IF RatLe(a, b) THEN b ELSE a

\* f64::min
F64Min(a, b) == IF RatLe(a, b) THEN a ELSE b

\* calculate_progress
calculate_progress(position, duration) ==
    IF RatLt(FromInt(0), duration)
    THEN F64Min(RatMul(RatDiv(position, duration), FromInt(100)), FromInt(100))
    ELSE FromInt(0)

\* positions and durations in whole seconds
MaxSeconds == 150
Seconds == {FromInt(i) : i \in (0 - 1)..MaxSeconds}

\* calculate_progress(position, duration)
CallCalculateProgress ==
    Returns("calculate_progress",
            calculate_progress(args.position, args.duration))

\* the progress_percent of the DownloadProgress record a download-progress
\* poller builds from the engine's statistics (u64 byte counts cast to f64)
progress_percent(downloaded_bytes, total_bytes) ==
    IF total_bytes > 0
    THEN RatMul(RatDiv(FromInt(downloaded_bytes), FromInt(total_bytes)), FromInt(100))
    ELSE FromInt(0)

\* byte counts reported by the engine
MaxBytes == 12
Bytes == 0..MaxBytes

\* a poller builds one DownloadProgress record
CallDownloadProgress ==
    Returns("DownloadProgress",
            [downloaded_bytes |-> args.downloaded_bytes,
             total_bytes |-> args.total_bytes,
             progress_percent |->
                 progress_percent(args.downloaded_bytes, args.total_bytes)])

FnNext ==
    \/ CallMatches
    \/ CallExtractKeywords
    \/ CallSortEpisodes
    \/ CallAdvance
    \/ CallAddTorrent
    \/ CallFetchTorrentFile
    \/ CallTorrentInfo
    \/ CallCalculateProgress
    \/ CallDownloadProgress

vars == <<raceVars, loopVars, fnVars>>

\* no pure-function call under way
FnIdle == fn = "none" /\ args = <<>> /\ ret = None

\* the loop at rest, under which race_torrents is explored on its own
LoopIdle == LoopInit /\ auto_race = MaxConcurrent /\ ipc = TRUE

\* a race at rest, under which the loop is explored on its own (the outcome of
\* the race a set-up task runs is drawn by RaceReturns)
RaceIdle == RaceInit /\ urls = <<>> /\ validation = None /\ concurrent = 1

\* race_torrents explored on its own
RaceSpecInit == RaceInit /\ LoopIdle /\ FnIdle

RaceSpec == RaceSpecInit /\ [][RaceNext]_vars

\* race_torrents with the fairness of its own loop: the function is polled
\* whenever one of the branches of its select! is ready.  Nothing is assumed
\* of the resolution tasks
RaceLiveSpec ==
    /\ RaceSpecInit
    /\ [][RaceNext]_vars
    /\ WF_vars(RaceCall)
    /\ WF_vars(RaceRecv)
    /\ WF_vars(RaceCancelled)

\* run_app explored on its own
LoopSpecInit == RaceIdle /\ LoopInit /\ FnIdle

LoopSpec == LoopSpecInit /\ [][LoopNext]_vars

\* the search slice of run_app: the loop, the search views and the search
\* tasks, with the set-up tasks of the sessions it starts not yet scheduled
SearchNext ==
    \/ DiscoveryEnter(MaxSearchIds)
    \/ DiscoverySlash
    \/ ResultsSlash
    \/ SearchEnter
    \/ \E k \in 1..Len(searches) : SearchFinish(k)
    \/ InputTimeout
    \/ ResultsBack
    \/ StreamingQuit
    \/ DrainEmpty
    \/ OnSearchComplete
    \/ OnSearchError
    \/ \E k \in 1..Len(tmdb_lookups) : TmdbLookup(k)
    \/ OnTmdbInfo

SearchSpecInit == RaceIdle /\ LoopInit /\ FnIdle

SearchSpec == SearchSpecInit /\ [][SearchNext]_vars

\* the TV browser slice of run_app: the loop, the Discovery, TvSeasons and
\* TvEpisodes views, the TMDB fetches and the search tasks, with the set-up
\* tasks of the sessions it starts not yet scheduled
TvNext ==
    \/ DiscoveryEnter(MaxTvSearches)
    \/ ResultsBack
    \/ DiscoveryEnterTv
    \/ \E k \in 1..Len(tv_fetches) : TvFetchFinish(k)
    \/ OnTvDetailsLoaded
    \/ OnSeasonEpisodesLoaded
    \/ TvSeasonsBack
    \/ TvSeasonsEnter
    \/ TvEpisodesEsc
    \/ TvEpisodesEnter
    \/ \E k \in 1..Len(searches) : SearchFinish(k)
    \/ InputTimeout
    \/ DrainEmpty
    \/ OnSearchComplete
    \/ OnSearchError

TvSpecInit == RaceIdle /\ LoopInit /\ FnIdle

TvSpec == TvSpecInit /\ [][TvNext]_vars

\* the telemetry pollers of a playing player, followed step by step, against
\* the loop that drains the channel, breaks and returns.  The start is the
\* state of run_app in which an auto-race session of one video file has been
\* resolved and its player, with an IPC socket, has just been launched
PollNext ==
    \/ \E k \in PollerKinds : PollerEmits(k)
    \/ \E k \in PollerKinds : PollerResumes(k)
    \/ OnTelemetry
    \/ DrainEmpty
    \/ InputTimeout
    \/ LoopBreaks
    \/ RunReturns

PlayerPlaying ==
    /\ view = "Streaming"
    /\ is_streaming = TRUE
    /\ streaming_state = "Ready"
    /\ available_files = NoFiles
    /\ selected_file_index = 0
    /\ current_episode_index = 0
    /\ next_episode_ready = FALSE
    /\ auto_play_next = TRUE
    /\ streaming_session = 1
    /\ streaming_cancel = 1
    /\ pending_torrent_info = 1
    /\ search_id = 1
    /\ is_searching = FALSE
    /\ has_results = TRUE
    /\ auto_race = MaxConcurrent
    /\ ipc = TRUE
    /\ loop_pc = "drain"
    /\ queue = <<>>
    /\ searches = <<>>
    /\ nsess = 1
    /\ token = [s \in Sessions |-> FALSE]
    /\ sess_kind = [s \in Sessions |-> IF s = 1 THEN "race" ELSE "none"]
    /\ setup_pc = [s \in Sessions |-> IF s = 1 THEN "done" ELSE "none"]
    /\ created = [s \in Sessions |-> s = 1]
    /\ cleaned = [s \in Sessions |-> FALSE]
    /\ nfiles = [s \in Sessions |-> IF s = 1 THEN 1 ELSE 0]
    /\ players = << [Player(1, "single", 1, <<1, 0>>) EXCEPT
                        !.pc = "playing", !.position = TRUE] >>
    /\ polls = 0
    /\ tmdb_info = 0
    /\ tmdb_lookups = <<>>
    /\ race_criteria = [s \in Sessions |->
                           IF s = 1 THEN ValidationFrom(1, 0) ELSE NoCriteria]
    /\ is_fetching_tv_details = FALSE
    /\ has_tv_details = FALSE
    /\ tv_fetches = <<>>
    /\ episode_search = 0
    /\ cancelled_searches = {}

PollSpecInit ==
    /\ RaceIdle
    /\ FnIdle
    /\ PlayerPlaying
    /\ poller = [k \in PollerKinds |-> "sleeping"]
    /\ rx_open = TRUE

PollSpec == PollSpecInit /\ [][PollNext]_vars

\* one call of one pure function, on arguments drawn from its input set
FnSpecInit ==
    /\ RaceIdle
    /\ LoopIdle
    /\ \/ \E a \in MatchesCalls : Call("matches", a)
       \/ \E q \in Queries : Call("extract_keywords", [query |-> q])
       \/ \E fs \in FileLists : Call("sort_episodes", [files |-> fs])
       \/ \E a \in EpisodeApps : Call("advance_to_next_episode", a)
       \/ \E a \in AddTorrentCalls : Call("add_torrent", a)
       \/ \E path \in {"inner", "http"}, fs \in TorrentFiles :
              Call("torrent_info", [path |-> path, files |-> fs])
       \/ \E rs \in ResponseChains, b \in BOOLEAN :
              Call("fetch_torrent_file", [responses |-> rs, base_parses |-> b])
       \/ \E pos \in Seconds, dur \in Seconds :
              Call("calculate_progress", [position |-> pos, duration |-> dur])
       \/ \E d \in Bytes, t \in Bytes :
              Call("DownloadProgress", [downloaded_bytes |-> d, total_bytes |-> t])

FnSpec == FnSpecInit /\ [][FnNext]_vars

(***************************************************************************)
(* Claims about race_torrents (checked under RaceSpec).                    *)
(***************************************************************************)
\* candidates that resolve and pass the filename validation
Passing ==
    {i \in Indices :
        /\ urls[i + 1].ok
        /\ \/ ~IsSome(validation)
           \/ Matches(Unwrap(validation), urls[i + 1].info.selected_file)}

FirstPassing == CHOOSE i \in Passing : \A j \in Passing : i <= j

ReturnedUncancelled == race_pc = "returned" /\ ~race_cancel

\* C1 (as stated): when candidates 0..k-1 fail or are rejected and candidate
\* k resolves and passes validation, the race returns (k, its TorrentInfo),
\* for every width and every completion order.
C1_AsStated ==
    (ReturnedUncancelled /\ Passing # {}) =>
        race_result = Some(RaceOk(FirstPassing, ResultOf(FirstPassing).info))

\* C1 (amended): under the same premise the race returns a candidate that
\* resolves and passes validation and that is one of the first `concurrent`
\* such candidates of the list; it is candidate k itself when the width is 1
\* or when no other candidate both resolves and passes validation.
C1_FirstPassingWins ==
    (ReturnedUncancelled /\ Passing # {}) =>
        /\ IsSome(race_result)
        /\ Unwrap(race_result).ok
        /\ LET w == Unwrap(race_result).idx IN
            /\ w \in Passing
            /\ Unwrap(race_result).info = ResultOf(w).info
            /\ Cardinality({j \in Passing : j < w}) < concurrent
            /\ (concurrent = 1 \/ Cardinality(Passing) = 1) => w = FirstPassing

\* C1 witness: a race of width 2 that returned the first passing candidate
\* after an earlier candidate failed and another was rejected.
C1_Witness ==
    /\ ReturnedUncancelled
    /\ concurrent = 2
    /\ total = 3
    /\ Passing = {2}
    /\ urls[1].ok /\ ~urls[2].ok
    /\ race_result = Some(RaceOk(2, ResultOf(2).info))

\* C2: race_torrents returns Ok((i, info)) only if candidate i was started,
\* its resolution succeeded with exactly that info, and validation is absent
\* or matches the selected file's name.
C2_WinnerIsValid ==
    (IsSome(race_result) /\ Unwrap(race_result).ok) =>
        LET w == Unwrap(race_result).idx
            info == Unwrap(race_result).info
        IN /\ w \in Indices
           /\ task[w] = "received"
           /\ urls[w + 1].ok
           /\ info = urls[w + 1].info
           /\ info.id = w
           /\ \/ ~IsSome(validation)
              \/ Matches(Unwrap(validation), info.selected_file)

\* C2 witness: a winner returned by a race that has a year criterion and
\* that received, and rejected, a resolved candidate without the year.
C2_Witness ==
    /\ IsSome(race_result) /\ Unwrap(race_result).ok
    /\ IsSome(validation) /\ IsSome(Unwrap(validation).year)
    /\ \E j \in Indices :
          /\ task[j] = "received"
          /\ urls[j + 1].ok
          /\ ~StrContains(urls[j + 1].info.selected_file, <<"1", "9">>)

\* C3: the number of resolution tasks started and not yet received by the
\* race loop never exceeds min(concurrent, total).
C3_PoolBound == Cardinality(Outstanding) <= Min(concurrent, total)

\* C3 witness: the pool is full again after a replacement was started, in a
\* race with more candidates than its width.
C3_Witness ==
    /\ race_pc = "racing"
    /\ concurrent < total
    /\ Cardinality(Outstanding) = concurrent
    /\ \E i \in Indices : task[i] = "received"

\* C4 (as stated): once the token is signaled while racing, no further
\* candidate is started and the race returns only the cancellation failure,
\* whatever is pending on the completion channel.
C4_AsStated ==
    [][(race_pc = "racing" /\ race_cancel) =>
          /\ Started' = Started
          /\ race_pc' = "returned" => race_result' = Some(RaceErr(ErrCancelled))]_vars

\* C10: with an empty candidate list race_torrents returns a failure at once
\* and no resolution task is started.
C10_EmptyFails ==
    total = 0 =>
        /\ race_pc \in {"call", "returned"}
        /\ Started = {}
        /\ chan = <<>>
        /\ race_pc = "returned" =>
              IsSome(race_result) /\ ~Unwrap(race_result).ok

\* C10 witness: the race over the empty list has returned.
C10_Witness == total = 0 /\ race_pc = "returned" /\ IsSome(race_result)

(***************************************************************************)
(* Claims about run_app (checked under LoopSpec).                          *)
(***************************************************************************)
\* C5 (as stated): once the token of a session is signaled, a task of that
\* session delivers no ProgressUpdate, PlaybackProgress, TorrentMetadata or
\* StreamError message.
C5_AsStated ==
    [][Len(queue') > Len(queue) =>
          LET m == queue'[Len(queue')]
          IN (m.sess # 0 /\ token[m.sess]) =>
                 m.type \notin {"ProgressUpdate", "PlaybackProgress",
                                "TorrentMetadata", "StreamError"}]_vars

\* C6 (as stated): at the step that starts a session, every earlier session
\* has its token signaled and, if its storage was created, a cleanup of the
\* temporary directory has been performed since.
C6_AsStated ==
    [][nsess' > nsess =>
          \A p \in 1..nsess :
              /\ token'[p]
              /\ created[p] => \E r \in p..nsess : cleaned'[r]]_vars

\* nothing of session s is left to run: its set-up task has ended, its player
\* tasks have ended, none of its messages is queued and the loop does not
\* hold its handle
Quiescent(s) ==
    /\ setup_pc[s] = "done"
    /\ streaming_session # s
    /\ \A p \in 1..Len(players) : players[p].sess = s => players[p].pc = "done"
    /\ \A i \in 1..Len(queue) : queue[i].sess # s

\* C7 (as stated, the cleanup clause): a session whose token was signaled and
\* whose storage was created has had the temporary directory cleaned up by
\* the time nothing of it is left to run.
C7_AsStated ==
    \A s \in Sessions :
        (token[s] /\ created[s] /\ Quiescent(s)) =>
            \E r \in s..MaxSessions : cleaned[r]

\* the step in which the loop handles a PlayerExited message
PlayerExitedHandled ==
    /\ loop_pc = "drain"
    /\ queue # <<>>
    /\ Head(queue).type = "PlayerExited"
    /\ queue' = Tail(queue)

\* C8: with auto-advance on and a release of n >= 2 files, a player-exit
\* event at an index below n-1 moves current_episode_index up by exactly one
\* and starts the player task of that file without changing the view; a
\* player-exit event at index n-1 tears the session down (storage cleaned,
\* file list cleared, is_streaming false).
C8_AutoAdvance ==
    [][(PlayerExitedHandled /\ auto_play_next /\ available_files.n >= 2) =>
          IF current_episode_index + 1 < available_files.n
          THEN /\ current_episode_index' = current_episode_index + 1
               /\ view' = view
               /\ Len(players') = Len(players) + 1
               /\ players'[Len(players')].pc = "subs"
               /\ players'[Len(players')].file =
                      <<available_files.owner, current_episode_index + 1>>
               /\ available_files' = available_files
               /\ is_streaming' = is_streaming
          ELSE /\ streaming_session # 0
               /\ cleaned'[streaming_session]
               /\ available_files' = NoFiles
               /\ ~is_streaming']_vars

\* C8 witness: a release of n >= 2 files of a session that was never
\* cancelled, played from index 0 to index n-1 by auto-advance and then torn
\* down by the last player-exit event.
C8_Witness ==
    \E s \in Sessions :
        /\ nfiles[s] >= 2
        /\ ~token[s]
        /\ current_episode_index = nfiles[s] - 1
        /\ \E p \in 1..Len(players) :
              /\ players[p].kind = "select"
              /\ players[p].file = <<s, 0>>
              /\ players[p].pc = "done"
        /\ \E p \in 1..Len(players) :
              /\ players[p].kind = "auto"
              /\ players[p].file = <<s, nfiles[s] - 1>>
              /\ players[p].pc = "done"
        /\ streaming_session = 0
        /\ cleaned[s]
        /\ available_files = NoFiles
        /\ ~is_streaming

\* C9 (as stated): once the torrent of the installed session is resolved,
\* current_episode_index is an index into its video-file list; stated for
\* the runs in which no session was cancelled, where the sessions follow one
\* another.
C9_AsStated ==
    (pending_torrent_info # 0 /\ \A s \in Sessions : ~token[s]) =>
        current_episode_index < nfiles[pending_torrent_info]

StaleCompleteHandled ==
    /\ loop_pc = "drain"
    /\ queue # <<>>
    /\ Head(queue).type = "SearchComplete"
    /\ Head(queue).arg.search_id # search_id
    /\ queue' = Tail(queue)

\* the search_id values carried by the search tasks in flight and by the
\* queued SearchComplete messages
IdsInFlight ==
    {searches[k] : k \in 1..Len(searches)} \cup
    {queue[i].arg.search_id :
        i \in {j \in 1..Len(queue) : queue[j].type = "SearchComplete"}}

\* C12: handling a SearchComplete whose search_id is not the current one
\* changes nothing of the application or session state and starts nothing;
\* search_id never decreases and changes only by the step that starts a
\* search, by exactly one, and the search started carries the new value,
\* which no other search in flight or queued result carries.
C12_StaleIgnored ==
    [][/\ StaleCompleteHandled =>
              UNCHANGED <<appVars, sessVars, players, searches, polls>>
       /\ search_id' # search_id =>
              /\ search_id' = search_id + 1
              /\ searches' = Append(searches, search_id')
       /\ Len(searches') > Len(searches) =>
              /\ searches'[Len(searches')] = search_id'
              /\ search_id' = search_id + 1
              /\ search_id' \notin IdsInFlight]_vars

\* C12 witness: two searches were started and carry the identifiers 1 and 2;
\* the results of search 1 arrived after search 2 became current and are at
\* the head of the queue the loop is draining.
C12_Witness ==
    /\ search_id = 2
    /\ searches = <<2>>
    /\ loop_pc = "drain"
    /\ queue # <<>>
    /\ Head(queue) = Msg("SearchComplete", 0, [search_id |-> 1, found |-> TRUE])
    /\ is_searching
    /\ ~has_results

(***************************************************************************)
(* Claims about the pure functions (FnSpec).                               *)
(***************************************************************************)
\* what the contract of matches says of criteria v and a name: some keyword
\* occurs in the name when both are compared without regard to letter case
\* (or there is no keyword), and the year's digits occur in the name (or
\* there is no year)
MatchesContract(v, name) ==
    /\ \/ Len(v.title_keywords) = 0
       \/ \E k \in 1..Len(v.title_keywords) :
             StrContains(ToLowercase(name), ToLowercase(v.title_keywords[k]))
    /\ \/ ~IsSome(v.year)
       \/ StrContains(name, U16ToString(Unwrap(v.year)))

\* C13: matches returns true exactly when (there is no keyword or some
\* keyword occurs in the name, compared case-insensitively, whatever the
\* letter case of the keyword) and (there is no year or the year's decimal
\* string occurs in the name).
C13_AsStated ==
    (fn = "matches" /\ IsSome(ret)) =>
        Unwrap(ret) = MatchesContract(args.v, args.filename)

\* the maximal alphanumeric runs of a query: q[i..j] is alphanumeric and is
\* bounded on each side by a separator or by an end of the query
MaximalRuns(q) ==
    { SubSeq(q, i, j) : <<i, j>> \in
        { r \in (1..Len(q)) \X (1..Len(q)) :
            /\ r[1] <= r[2]
            /\ \A k \in r[1]..r[2] : IsAlphanumeric(q[k])
            /\ r[1] = 1 \/ ~IsAlphanumeric(q[r[1] - 1])
            /\ r[2] = Len(q) \/ ~IsAlphanumeric(q[r[2] + 1]) } }

FourDigitNumber(w) == Len(w) = 4 /\ \A i \in 1..4 : IsDigit(w[i])

Range(f) == {f[i] : i \in DOMAIN f}

\* the keyword set the contract describes, the length of a run being measured
\* by Measure
KeywordsBy(Measure(_), q) ==
    { w \in {ToLowercase(r) : r \in {x \in MaximalRuns(q) : Measure(x) >= 3}} :
        w \notin stop_words /\ ~FourDigitNumber(w) }

ExampleKeywords ==
    /\ args.query = LordOfTheRings =>
           Range(Unwrap(ret)) = {<<"l", "o", "r", "d">>, <<"r", "i", "n", "g", "s">>}
    /\ args.query = SpiderMan =>
           Range(Unwrap(ret)) = {<<"s", "p", "i", "d", "e", "r">>, <<"m", "a", "n">>, <<"w", "a", "y">>, <<"h", "o", "m", "e">>}

\* C14 as stated: the tokens returned are the lower-cased maximal
\* alphanumeric runs of at least 3 characters that are neither stop words
\* nor 4-digit numbers.
C14_AsStated ==
    (fn = "extract_keywords" /\ IsSome(ret)) =>
        /\ Range(Unwrap(ret)) = KeywordsBy(Len, args.query)
        /\ ExampleKeywords

\* C14: the tokens returned are the lower-cased maximal alphanumeric runs
\* whose length in bytes (UTF-8) is at least 3 and that are neither stop
\* words nor 4-digit numbers; the two example queries yield {lord, rings}
\* and {spider, man, way, home}.
C14_KeywordsByByteLength ==
    (fn = "extract_keywords" /\ IsSome(ret)) =>
        /\ Range(Unwrap(ret)) = KeywordsBy(StrLen, args.query)
        /\ ExampleKeywords

\* C14 witness: extract_keywords has returned lord and rings for the query
\* 'The Lord of the Rings 2001', dropping both stop words and the year.
C14_Witness ==
    /\ fn = "extract_keywords"
    /\ args.query = LordOfTheRings
    /\ ret = Some(<<<<"l", "o", "r", "d">>, <<"r", "i", "n", "g", "s">>>>)

\* a file name holds one of the two episode patterns
HasEpisodePattern(f) == IsSome(SxexKey(f.name)) \/ IsSome(XKey(f.name))

\* (season, episode) of a, b in strictly ascending lexicographic order
KeyBefore(a, b) == a[1] < b[1] \/ (a[1] = b[1] /\ a[2] < b[2])

\* C15: sort_episodes leaves the same files in ascending lexicographic order
\* of their (season, episode) key, and every file without an episode pattern
\* stands after every file that has one.
C15_SortedByEpisode ==
    (fn = "sort_episodes" /\ IsSome(ret)) =>
        LET out == Unwrap(ret)
        IN /\ Len(out) = Len(args.files)
           /\ Range(out) = Range(args.files)
           /\ \A i, j \in 1..Len(out) :
                  i < j => ~KeyBefore(episode_sort_key(out[j]),
                                      episode_sort_key(out[i]))
           /\ \A i, j \in 1..Len(out) :
                  (HasEpisodePattern(out[i]) /\ ~HasEpisodePattern(out[j]))
                      => i < j

\* C15 witness: a list that starts with a file without a pattern, followed
\* by S2E1 and S1E10, has been sorted to S1E10, S2E1, then the other file.
C15_Witness ==
    /\ fn = "sort_episodes"
    /\ IsSome(ret)
    /\ Len(args.files) = 3
    /\ args.files[1].name = <<"a", "b", "c">>
    /\ args.files[2].name = <<"S", "2", "E", "1">>
    /\ args.files[3].name = <<"S", "1", "E", "1", "0">>
    /\ Unwrap(ret) = <<args.files[3], args.files[2], args.files[1]>>

\* C16: when current_episode_index + 1 is a valid index of available_files,
\* advance_to_next_episode adds exactly 1 to current_episode_index, clears
\* next_episode_ready and returns the file at the new index; otherwise it
\* returns nothing and leaves current_episode_index, selected_file_index and
\* next_episode_ready as they were. has_next_episode is true exactly when
\* current_episode_index + 1 < length of available_files.
C16_Advance ==
    (fn = "advance_to_next_episode" /\ IsSome(ret)) =>
        LET after == Unwrap(ret).app
            result == Unwrap(ret).result
            n == Len(args.available_files)
        IN /\ HasNextEpisode(args.current_episode_index, n)
                  <=> args.current_episode_index + 1 < n
           /\ after.available_files = args.available_files
           /\ IF args.current_episode_index + 1 \in 0..(n - 1)
              THEN /\ after.current_episode_index
                         = args.current_episode_index + 1
                   /\ after.next_episode_ready = FALSE
                   /\ result = Some(args.available_files[
                                       after.current_episode_index + 1])
              ELSE /\ result = None
                   /\ after.current_episode_index = args.current_episode_index
                   /\ after.selected_file_index = args.selected_file_index
                   /\ after.next_episode_ready = args.next_episode_ready

\* C16 witness: called on the first of three files with the flag set and the
\* selection on the last file, it has returned the second file and moved
\* the index to it.
C16_Witness ==
    /\ fn = "advance_to_next_episode"
    /\ IsSome(ret)
    /\ Len(args.available_files) = 3
    /\ args.next_episode_ready
    /\ args.current_episode_index = 0
    /\ args.selected_file_index = 2
    /\ Unwrap(ret).result = Some(args.available_files[2])
    /\ Unwrap(ret).app.current_episode_index = 1
    /\ ~Unwrap(ret).app.next_episode_ready

\* the candidate of a call of add_torrent is an HTTP(S) link
HttpCandidate == StartsWith(args.url, HttpScheme) \/ StartsWith(args.url, HttpsScheme)

\* the h-th response is a redirect whose Location contains a magnet URI, and
\* the fetch gets as far as that response
MagnetRedirectAt(h) ==
    /\ h <= Len(args.responses)
    /\ args.responses[h].status = "3xx"
    /\ IsSome(args.responses[h].location)
    /\ StrContains(Unwrap(args.responses[h].location), MagnetScheme)
    /\ \A k \in 1..(h - 1) :
           /\ args.responses[k].status = "3xx"
           /\ IsSome(args.responses[k].location)
           /\ ~StrContains(Unwrap(args.responses[k].location), MagnetScheme)
           /\ StartsWith(Unwrap(args.responses[k].location), <<"/">>)
                  => args.base_parses

IsSuffix(t, s) == Len(t) <= Len(s) /\ SubSeq(s, Len(s) - Len(t) + 1, Len(s)) = t

\* body is the magnet URI a Location contains: it starts with the magnet
\* scheme and is the rest of the Location, as written or percent-decoded
IsMagnetUriOf(body, location) ==
    /\ StartsWith(body, MagnetScheme)
    /\ IsSuffix(body, location) \/ IsSuffix(body, DecodeBinary(location))

\* C17: when a redirect among the first 10 hops of an HTTP candidate carries
\* a Location that contains a magnet URI, add_torrent submits that magnet
\* URI to the engine and does not fail with "too many redirects"; the
\* MagnetRedirect marker is never returned by add_torrent.
C17_AsStated ==
    (fn = "add_torrent" /\ IsSome(ret)) =>
        /\ Unwrap(ret).err.variant # "MagnetRedirect"
        /\ \A h \in 1..MAX_REDIRECTS :
               (HttpCandidate /\ MagnetRedirectAt(h)) =>
                   /\ Unwrap(ret).err.msg # "too many redirects"
                   /\ IsSome(Unwrap(ret).submitted)
                   /\ Unwrap(Unwrap(ret).submitted).kind = "magnet"
                   /\ IsMagnetUriOf(Unwrap(Unwrap(ret).submitted).body,
                                    Unwrap(args.responses[h].location))

\* position * 100 / duration, cut off at 100
PercentClamped(position, duration) ==
    LET q == <<position[1] * 100 * duration[2], position[2] * duration[1]>>
    IN IF RatLe(q, FromInt(100)) THEN q ELSE FromInt(100)

\* C18: for non-negative position and duration, calculate_progress is 0 when
\* the duration is 0 and min(100, position * 100 / duration) when it is
\* positive, and so lies in [0, 100]; (0, 0) gives 0, (50, 100) gives 50 and
\* (150, 100) gives 100.
C18_Progress ==
    (/\ fn = "calculate_progress"
     /\ IsSome(ret)
     /\ RatLe(FromInt(0), args.position)
     /\ RatLe(FromInt(0), args.duration)) =>
        LET r == Unwrap(ret)
        IN /\ r[2] > 0
           /\ RatEq(args.duration, FromInt(0)) => RatEq(r, FromInt(0))
           /\ RatLt(FromInt(0), args.duration) =>
                  RatEq(r, PercentClamped(args.position, args.duration))
           /\ RatLe(FromInt(0), r) /\ RatLe(r, FromInt(100))
           /\ (args.position = FromInt(0) /\ args.duration = FromInt(0))
                  => RatEq(r, FromInt(0))
           /\ (args.position = FromInt(50) /\ args.duration = FromInt(100))
                  => RatEq(r, FromInt(50))
           /\ (args.position = FromInt(150) /\ args.duration = FromInt(100))
                  => RatEq(r, FromInt(100))

\* C18 witness: calculate_progress(150, 100) has returned 100, the clamped
\* value.
C18_Witness ==
    /\ fn = "calculate_progress"
    /\ args = [position |-> FromInt(150), duration |-> FromInt(100)]
    /\ IsSome(ret)
    /\ RatEq(Unwrap(ret), FromInt(100))

(***************************************************************************)
(* Claims about the players and the storage of a session (LoopSpec).       *)
(***************************************************************************)
\* the player processes running for the active session
RunningPlayers ==
    {p \in 1..Len(players) :
        players[p].pc = "playing" /\ players[p].sess = streaming_session}

\* C19: when the user cancels the active session (one that is streaming and
\* has not been cancelled before) with q/Esc while a player process is
\* running for it, however that player was started, the cancel signals a
\* token that the player's task holds, so the player is killed.
C19_AsStated ==
    [][(StreamingQuit /\ streaming_session # 0 /\ is_streaming) =>
           \A p \in RunningPlayers :
               players[p].tok # 0 /\ token'[players[p].tok]]_vars

\* a step starts the player task of the next file of the active session
\* (auto-advance, also after a skip)
StartsNextFile ==
    /\ Len(players') = Len(players) + 1
    /\ players'[Len(players')].kind = "auto"

\* C20: the storage of a session is removed only when the session ends: at
\* the step that starts playback of the next file by auto-advance or after a
\* skip, cleanup has not been invoked on that session.
C20_AsStated ==
    [][StartsNextFile => ~cleaned[players'[Len(players')].sess]]_vars

\* the loop handles a PlayerExited that a task of session s sent
HandlesPlayerExitedOf(s) ==
    /\ OnPlayerExited
    /\ Head(queue).sess = s

\* session s was cancelled and a later session is the one that is streaming
LaterSessionActive(s) ==
    /\ token[s]
    /\ is_streaming
    /\ streaming_cancel > s

\* C21: a PlayerExited sent by a task of an earlier, cancelled session leaves
\* the later session alone: is_streaming, the session handle, the torrent
\* info, the view, the episode index, the storage and the players are as
\* before.
C21_AsStated ==
    [][\A s \in Sessions :
           (HandlesPlayerExitedOf(s) /\ LaterSessionActive(s)) =>
               UNCHANGED <<is_streaming, streaming_session, pending_torrent_info,
                           view, current_episode_index, cleaned, players>>]_vars

\* the loop handles a TorrentMetadata that the set-up task of session s sent
HandlesMetadataOf(s) ==
    /\ OnTorrentMetadata
    /\ Head(queue).sess = s

\* C22: a TorrentMetadata of a session whose token the user's cancel has
\* signaled launches no player, does not install the session and leaves the
\* view where it is.
C22_AsStated ==
    [][\A s \in Sessions :
           (HandlesMetadataOf(s) /\ token[s]) =>
               UNCHANGED <<players, streaming_session, pending_torrent_info,
                           view>>]_vars

\* the sessions that have a set-up task or a player task in flight
SessionsInFlight ==
    {s \in Sessions :
        \/ setup_pc[s] \notin {"none", "done"}
        \/ \E p \in 1..Len(players) :
              players[p].sess = s /\ players[p].pc # "done"}

\* the player processes that are running
PlayersRunning == {p \in 1..Len(players) : players[p].pc = "playing"}

\* C23: at most one session has a task in flight (race task, metadata task
\* or player task), and at most one player process is running.
C23_AsStated ==
    /\ Cardinality(SessionsInFlight) <= 1
    /\ Cardinality(PlayersRunning) <= 1

(***************************************************************************)
(* Further claims about race_torrents (RaceSpec).                          *)
(***************************************************************************)
\* the race has returned a winner
WinnerReturned ==
    race_pc = "returned" /\ IsSome(race_result) /\ Unwrap(race_result).ok

\* C24: once race_torrents has returned a winner, a resolution task of that
\* race that completes later only ends: the result of the race, its channel
\* and counters and the state of the orchestration loop (its message queue
\* included) stay as they are, so the race yields one result and no error.
C24_LateCompletionIgnored ==
    [][WinnerReturned =>
           /\ UNCHANGED <<race_result, race_pc, chan, in_flight, urls_iter,
                          loopVars>>
           /\ \A i \in Indices :
                  task'[i] # task[i] =>
                      task[i] = "running" /\ task'[i] = "dropped"]_vars

\* C24 witness: a winner was returned and another task of the race has
\* completed afterwards.
C24_Witness ==
    /\ WinnerReturned
    /\ \E i \in Indices : task[i] = "dropped"

\* C25: while race_torrents waits for a completion, as long as an unstarted
\* candidate remains the number of resolution tasks in flight is min(W, N):
\* each failed or rejected result has been replaced by the next candidate.
\* The counter in_flight is the number of tasks whose result was not yet
\* received.
C25_PoolKeptFull ==
    race_pc = "racing" =>
        /\ in_flight = Cardinality(Outstanding)
        /\ urls_iter < total => in_flight = Min(concurrent, total)
        /\ in_flight <= Min(concurrent, total)

\* C25 witness: a result was received and discarded, an unstarted candidate
\* still remains, and the race waits again.
C25_Witness ==
    /\ race_pc = "racing"
    /\ \E i \in Indices : task[i] = "received"
    /\ urls_iter < total
    /\ in_flight = Min(concurrent, total)
    /\ Cardinality(Outstanding) = in_flight

\* C26: candidates are started in the order of the input list and each at
\* most once: the call starts exactly the first min(W, N) candidates, a task
\* is started only for a candidate not started before, and whenever one is
\* started every candidate before it in the list has been started.
C26_StartedInOrder ==
    [][/\ (race_pc = "call" /\ race_pc' = "racing") =>
              {i \in Indices : task'[i] = "running"}
                  = 0..(Min(concurrent, total) - 1)
       /\ \A i \in Indices :
              (task'[i] = "running" /\ task[i] # "running") =>
                  /\ task[i] = "unstarted"
                  /\ \A j \in 0..(i - 1) : task'[j] # "unstarted"]_vars

\* C26 witness: with width 2 the first two candidates were started by the
\* call and the third one later, as a replacement.
C26_Witness ==
    /\ concurrent = 2
    /\ total = 3
    /\ task[2] = "running"
    /\ \E i \in {0, 1} : task[i] = "received"

(***************************************************************************)
(* Claim C27: the validation criteria of a race come only from the search   *)
(* that started it: the TMDB metadata that contributes keywords and the     *)
(* expected year to the race of a session is absent or was looked up for    *)
(* the query of the search whose results started that race, never for an    *)
(* earlier search.                                                          *)
(* The race task is given the metadata stored when SearchComplete is        *)
(* handled.  The Discovery Enter leaves the stored metadata alone and the   *)
(* TmdbInfo handler stores whatever arrives, so the metadata of the search  *)
(* view's search 1 is still stored, or arrives late, when the results of    *)
(* search 2 start a race.                                                   *)
(***************************************************************************)
C27_AsStated ==
    \A s \in Sessions :
        sess_kind[s] = "race" =>
            race_criteria[s].tmdb \in {0, race_criteria[s].search}

(***************************************************************************)
(* Claim C28: a failed player launch is surfaced at once and ends the       *)
(* session: whichever player task it happens in (first file, file chosen    *)
(* in the file selection, auto-advanced episode), the task goes on to send  *)
(* StreamError, and never PlayerExited, which the loop answers by starting  *)
(* the next episode or by its end-of-playback handling.                     *)
(* The task of an auto-advanced episode only logs the failure and then      *)
(* sends PlayerExited like a player that ran to its end.                    *)
(***************************************************************************)
\* launch_player returns Err in player task p (the cancellation check before
\* the launch, which the first-file and file-selection tasks make, did not
\* end the task)
LaunchFails(p) ==
    /\ PlayerLaunch(p)
    /\ ~(players[p].kind # "auto" /\ IsCancelled(players[p].tok))
    /\ players'[p].pc # "playing"

C28_AsStated ==
    [][\A p \in 1..Len(players) :
          LaunchFails(p) => players'[p].pc = "send_err"]_vars

(***************************************************************************)
(* Claim C29: a cancelled session never shows an error: once the token of   *)
(* a session is signaled, no failure in its set-up task (creating the       *)
(* session, resolving the torrent, the race) makes the task send a          *)
(* StreamError, which the loop would answer by entering the Error state.    *)
(* Only the race failure is checked against the token.  A failed            *)
(* StreamingSession::new in either task, and a failed add_torrent in the    *)
(* Results Enter task, are reported without looking at the token.           *)
(***************************************************************************)
\* the set-up task of session s goes on to send StreamError
ProducesStreamError(s) ==
    /\ setup_pc[s] \in {"creating", "adding", "racing"}
    /\ setup_pc'[s] \in {"send_err", "send_err_cleanup"}

C29_AsStated ==
    [][\A s \in Sessions : token[s] => ~ProducesStreamError(s)]_vars

(***************************************************************************)
(* Claim C30: the end of playback without auto-advance.  When PlayerExited  *)
(* is handled and a next file exists in a release of more than one video    *)
(* file while auto-advance is off, the loop goes to the file selection      *)
(* with the next file preselected and keeps the session, its files and its  *)
(* resolved torrent; when no next file exists, the session is torn down:    *)
(* the handle is taken and cleaned up, the resolved torrent and the file    *)
(* list are cleared, is_streaming is false, and no player is started.       *)
(* App::new sets auto_play_next and nothing in the program clears it, so    *)
(* only the second case arises in a run.                                    *)
(***************************************************************************)
NextFileExists == current_episode_index + 1 < available_files.n

KeepsSessionInFileSelection ==
    /\ view' = "FileSelection"
    /\ selected_file_index' = current_episode_index + 1
    /\ UNCHANGED <<streaming_session, pending_torrent_info, available_files,
                   is_streaming, cleaned, players, current_episode_index>>

TearsSessionDown ==
    /\ streaming_session # 0 => cleaned'[streaming_session]
    /\ streaming_session' = 0
    /\ pending_torrent_info' = 0
    /\ available_files' = NoFiles
    /\ is_streaming' = FALSE
    /\ view' = (IF auto_race > 0 THEN "Discovery" ELSE "Results")
    /\ UNCHANGED <<players, current_episode_index>>

C31_AsStated ==
    (fn = "DownloadProgress" /\ IsSome(ret)) =>
        LET r == Unwrap(ret)
        IN /\ (r.total_bytes > 0) =>
                  RatEq(r.progress_percent,
                        PercentClamped(FromInt(r.downloaded_bytes),
                                       FromInt(r.total_bytes)))
           /\ (r.total_bytes = 0) => RatEq(r.progress_percent, FromInt(0))
           /\ RatLe(r.progress_percent, FromInt(100))

(***************************************************************************)
(* Claim C32: a telemetry poller that tries to emit into a channel that is  *)
(* full, or whose receiver is closed, ends: it neither waits for capacity   *)
(* nor keeps polling.                                                       *)
(* Both pollers emit with send().await, which waits while the channel is    *)
(* full; the download-progress poller ends only on a closed receiver, and   *)
(* the playback-position poller discards the result of send and never ends. *)
(***************************************************************************)
TriesToEmit(k) == PollerEmits(k) \/ PollerResumes(k)

C32_AsStated ==
    [][\A k \in PollerKinds :
          (TriesToEmit(k) /\ (~CanSend \/ ~rx_open)) => poller'[k] = "ended"]_vars

(***************************************************************************)
(* Claim C33: fetch_torrent_file follows at most 10 redirects.  A chain of  *)
(* at most 10 followed redirects that ends in a 2xx response returns the    *)
(* body of that response; an 11th redirect gives the failure "too many      *)
(* redirects"; a response that is neither 2xx nor 3xx gives a failure; and  *)
(* nothing is returned from beyond the 10th redirect.  (Url::parse of the   *)
(* current URL succeeds whenever a response came back for that URL, since   *)
(* the request was built from the same parse.)                              *)
(***************************************************************************)
\* a redirect the loop follows: it names a Location that holds no magnet link
FollowedRedirect(r) ==
    r.status = "3xx" /\ IsSome(r.location) /\ ~IsMagnetLocation(Unwrap(r.location))

\* the redirects followed before the first response that is not one
LeadingRedirects(rs) ==
    CHOOSE n \in 0..Len(rs) :
        /\ \A i \in 1..n : FollowedRedirect(rs[i])
        /\ n < Len(rs) => ~FollowedRedirect(rs[n + 1])

C33_RaceContinues ==
    [][(RaceRecv /\ ~ResultOf(Head(chan)).ok
             /\ (in_flight > 1 \/ urls_iter < total))
          => /\ race_pc' = "racing"
             /\ \A j \in Indices :
                    task[j] \in {"running", "sent"} /\ j # Head(chan)
                        => task'[j] = task[j]]_vars

(***************************************************************************)
(* Claim C34: every TorrentInfo returned for resolved metadata has a        *)
(* non-empty video_files list and a selected_file that is one of            *)
(* video_files and of the greatest size among them; metadata with files     *)
(* but no video file gives the NoVideoFiles error and no TorrentInfo.       *)
(***************************************************************************)
NoVideoIn(files) == \A i \in 1..Len(files) : files[i].name \in OtherNames

C34_ResolvedTorrent ==
    (fn = "torrent_info" /\ IsSome(ret)) =>
        LET r == Unwrap(ret)
        IN /\ r.ok =>
                 /\ Len(r.video_files) > 0
                 /\ \E i \in 1..Len(r.video_files) :
                        r.video_files[i] = r.selected_file[1]
                 /\ \A j \in 1..Len(r.video_files) :
                        r.video_files[j].size <= r.selected_file[1].size
                 /\ \A j \in 1..Len(r.video_files) :
                        args.files[r.video_files[j].file_idx + 1].name \in VideoNames
           /\ (NoVideoIn(args.files) /\ (Len(args.files) > 0 \/ args.path = "inner"))
                 => (~r.ok /\ r.err = "NoVideoFiles")
           /\ ~NoVideoIn(args.files) => r.ok

\* a torrent of a small video, a subtitle and a larger video was resolved:
\* both videos are listed and the larger one is selected
C34_Witness ==
    /\ fn = "torrent_info"
    /\ Len(args.files) = 3
    /\ args.files[1].name \in VideoNames /\ args.files[1].len = 1
    /\ args.files[2].name \in OtherNames
    /\ args.files[3].name \in VideoNames /\ args.files[3].len = 2
    /\ IsSome(ret)
    /\ Unwrap(ret).ok
    /\ Len(Unwrap(ret).video_files) = 2
    /\ Unwrap(ret).selected_file[1].file_idx = 2

(***************************************************************************)
(* Claim C35: the keyword list extract_keywords returns holds no token      *)
(* twice, for every query, a query that repeats a word included.            *)
(* extract_keywords splits, filters and lower-cases; it never compares two  *)
(* tokens.  The sort and dedup are made by its caller in run_app.           *)
(***************************************************************************)
C35_AsStated ==
    (fn = "extract_keywords" /\ IsSome(ret)) =>
        LET kws == Unwrap(ret)
        IN \A i \in 1..Len(kws) : \A j \in 1..Len(kws) :
               i # j => kws[i] # kws[j]

(***************************************************************************)
(* Claim C36: race_torrents terminates.  If every started resolution task   *)
(* completes, the race returns, and unless it was cancelled it returns a    *)
(* winner or the exhaustion failure (the empty list has its own failure);   *)
(* once the token is signaled while racing, the race returns whatever the   *)
(* tasks in flight do; and a resolution task that has its result can        *)
(* always hand it over: the channel has room while the race runs, and the   *)
(* send fails at once after the race has returned.                          *)
(***************************************************************************)
TasksComplete == \A i \in 0..(MaxUrls - 1) : WF_vars(i \in Indices /\ TaskFinish(i))

RaceReturned == race_pc = "returned"

C36_Terminates ==
    /\ TasksComplete => <>RaceReturned
    /\ (race_pc = "racing" /\ race_cancel) ~> RaceReturned
    /\ [](\A i \in Indices : task[i] = "running" => ENABLED TaskFinish(i))
    /\ []((RaceReturned /\ ~race_cancel /\ total > 0) =>
             \/ Unwrap(race_result).ok
             \/ Unwrap(race_result) = RaceErr(ErrNoMatch))

\* the race returned the cancellation failure while a resolution task was
\* still running, and another result sat unread in the channel
C36_Witness ==
    /\ RaceReturned
    /\ race_result = Some(RaceErr(ErrCancelled))
    /\ \E i \in Indices : task[i] = "running"
    /\ \E i \in Indices : task[i] = "sent"

(***************************************************************************)
(* Claim C37: every player task sends exactly one terminal message,         *)
(* PlayerExited or StreamError, on each of its paths.  A task ends only by  *)
(* sending one of the two; it sends nothing terminal before, and nothing    *)
(* after; no terminal message enters the channel but from a player task or  *)
(* a set-up task at its last step; and a task that has not ended can        *)
(* always take its next step towards that message.                          *)
(***************************************************************************)
TerminalTypes == {"PlayerExited", "StreamError"}

\* this step appends a terminal message to the channel
TerminalSent ==
    /\ Len(queue') = Len(queue) + 1
    /\ queue'[Len(queue')].type \in TerminalTypes

PlayerSteps(p) == p <= Len(players') /\ players'[p].pc # players[p].pc

C37_OneTerminalMessage ==
    /\ [][/\ \A p \in 1..Len(players) :
               /\ (PlayerSteps(p) /\ players'[p].pc = "done") =>
                      /\ players[p].pc \in {"send_exit", "send_err"}
                      /\ queue' = Append(queue,
                            Msg(IF players[p].pc = "send_exit"
                                THEN "PlayerExited" ELSE "StreamError",
                                players[p].sess, 0))
               /\ (PlayerSteps(p) /\ players'[p].pc # "done") => ~TerminalSent
               /\ players[p].pc = "done" => players'[p] = players[p]
          /\ TerminalSent =>
               \/ \E p \in 1..Len(players) :
                     PlayerSteps(p) /\ players'[p].pc = "done"
               \/ \E s \in Sessions : setup_pc[s] # "done" /\ setup_pc'[s] = "done"]_vars
    /\ [](\A p \in 1..Len(players) :
              /\ players[p].pc = "subs" => ENABLED PlayerLaunch(p)
              /\ players[p].pc = "playing" => ENABLED PlayerStops(p)
              /\ (players[p].pc \in {"send_exit", "send_err"} /\ CanSend)
                     => ENABLED PlayerTaskSends(p))

\* every player task has ended, an auto-advance task among them, and its one
\* PlayerExited is the message the loop reads next
C37_Witness ==
    \E p \in 1..Len(players) :
        /\ players[p].kind = "auto"
        /\ players[p].pc = "done"
        /\ queue # <<>>
        /\ Head(queue) = Msg("PlayerExited", players[p].sess, 0)
        /\ \A q \in 1..Len(players) : players[q].pc = "done"

(***************************************************************************)
(* Claim C38: a SearchError of a stale search, one started before the       *)
(* current search, leaves the current search alone: handling it while the   *)
(* newer search is in progress does not clear is_searching.                 *)
(* SearchError carries no search_id and its handler compares nothing: it    *)
(* clears is_searching and stores the error whatever search failed.         *)
(***************************************************************************)
StaleErrorHandled ==
    /\ OnSearchError
    /\ Head(queue).arg # search_id
    /\ is_searching
    /\ search_id \in Range(searches)

C38_AsStated ==
    [][StaleErrorHandled => is_searching' = is_searching]_vars

\* C39: once the user has cancelled an in-progress episode search with q/Esc
\* in the TvEpisodes view, handling the SearchComplete of that search changes
\* neither the stored results nor the view and starts no auto-race.
CancelledResultsHandled ==
    /\ OnSearchComplete
    /\ Head(queue).arg.search_id \in cancelled_searches

C39_AsStated ==
    [][CancelledResultsHandled => UNCHANGED <<has_results, view, nsess>>]_vars

\* C40: when the loop breaks on should_quit while a session is active, the
\* cancellation token of that session is signaled by the time the loop has
\* exited, so that the player task's select! takes its cancellation branch.
QuitsWithSession ==
    /\ LoopBreaks
    /\ streaming_cancel # 0
    /\ ~token[streaming_cancel]

C40_AsStated ==
    [][QuitsWithSession => token'[streaming_cancel]]_vars

====
